---- MODULE Spec2Model ----
(***************************************************************************)
(* A model of the ingestion-and-annotation pipeline of FIN-news:           *)
(*   src/src/utils.py   identity (normalize_ws, normalize_title_for_hash,  *)
(*                      stable_item_id)                                    *)
(*   src/src/rules.py   the rule engine (regex_any, taggers, classifiers)  *)
(*   src/src/db.py      the store (upsert_item_and_annotations,            *)
(*                      run_cleanup, maybe_run_daily_cleanup)              *)
(*   src/src/ingest.py  the orchestrator (fetch_once) and the fetch        *)
(*                      gateway (fetch_feed_with_timeout)                  *)
(*                                                                         *)
(* Text is a sequence of one-character strings, so that lower-casing,      *)
(* whitespace collapsing, suffix stripping and the "|" joining of          *)
(* stable_item_id are computed character by character.                     *)
(*                                                                         *)
(* Four specifications share the variables:                                *)
(*   Spec        the store under upsert_item_and_annotations, run_cleanup  *)
(*               and maybe_run_daily_cleanup                               *)
(*   SpecIngest  the store under fetch_once, run over feed payloads, with  *)
(*               failures of the database statements                       *)
(*   SpecId      stable_item_id applied to an entry and to its variations  *)
(*   SpecFetch   fetch_feed_with_timeout, one request after the other      *)
(***************************************************************************)
EXTENDS Integers, Sequences, FiniteSets, Bags, TLC

VARIABLES
    items,      \* table items: bag of rows
    signals,    \* table signals: bag of rows
    item_tags,  \* table item_tags: bag of rows
    tags,       \* table tags: bag of rows
    maintenance,\* table maintenance_state: bag of rows
    source_status, \* table source_status: bag of rows
    sources,    \* table sources: bag of rows
    archives,   \* the files of the archives directory, each with its path
    fetch_status,  \* ingest._last_fetch_status
    now,        \* the clock read by utcnow() / datetime.now()
    last,       \* history: the operation that produced this state
    entryA,     \* SpecId: a feed entry (source_id, title, url, guid)
    entryB,     \* SpecId: a variation of entryA
    idA,        \* SpecId: stable_item_id of entryA
    idB,        \* SpecId: stable_item_id of entryB
    edits,      \* SpecId: the kinds of variation applied to entryB, in order
    tz,         \* the offset of the process's local time from UTC, in ticks
    rss_url,    \* SpecFetch: the argument of the call of fetch_feed_with_timeout
    attempt,    \* SpecFetch: the loop variable of fetch_feed_with_timeout
    requests,   \* SpecFetch: what the endpoint answered to the requests of the call
    returned,   \* SpecFetch: <<>> while the call runs, then <<its return value>>
    cl_title,     \* SpecRules: the title handed to the classifiers
    cl_direction, \* SpecRules: <<>>, then <<what classify_direction returned for it>>
    cl_urgency,   \* SpecRules: <<>>, then <<what classify_urgency returned for it>>
    cl_mode,      \* SpecRules: <<>>, then <<what classify_mode returned for it>>
    lp_pc,        \* SpecLoop: where the thread of fetch_loop stands
    stop_event,   \* SpecLoop: whether stop_event is set
    lp_hist,      \* SpecLoop: history of the periodic cycles and of the stop signal
    cc_runs,      \* SpecRace: where each of the two runs of fetch_once stands
    cc_lock,      \* SpecRace: the connection that holds the write lock of the database
    cc_payload,   \* SpecRace: what the feeds answer to both runs
    cc_hist,      \* SpecRace: history, the store at the start and the commits in order
    cf_file,      \* SpecConfig: what the configuration file of a rule table holds
    cf_loaded     \* SpecConfig: <<>>, then <<the loader called and what came of the call>>

vars == <<items, signals, item_tags, tags, maintenance, source_status, sources, archives, fetch_status, now, last, entryA, entryB, idA, idB, edits, tz, rss_url, attempt, requests, returned, cl_title, cl_direction, cl_urgency, cl_mode, lp_pc, stop_event, lp_hist, cc_runs, cc_lock, cc_payload, cc_hist, cf_file, cf_loaded>>

dbVars == <<items, signals, item_tags, tags, maintenance, source_status, sources, archives, fetch_status, now, last, tz>>

gwVars == <<rss_url, attempt, requests, returned>>

idVars == <<entryA, entryB, idA, idB, edits>>

rlVars == <<cl_title, cl_direction, cl_urgency, cl_mode>>

\* The variables of the specifications that stand beside the store, the
\* identifiers and the gateway.
lpVars == <<lp_pc, stop_event, lp_hist>>

ccVars == <<cc_runs, cc_lock, cc_payload, cc_hist>>

cfVars == <<cf_file, cf_loaded>>

exVars == <<rlVars, lpVars, ccVars, cfVars>>

-----------------------------------------------------------------------------
(* Text *)

\* Python's None, as a value comparable with text.
None == <<"<None>">>

\* Python truthiness of an Optional[str]: None and "" are falsy.
Truthy(s) == s # None /\ s # <<>>

\* The characters \s matches, among those of the model.
WsChars == {" ", "\t"}

IsWs(c) == c \in WsChars

UpperCase == <<"A","B","C","D","E","F","G","H","I","J","K","L","M","N","O","P","Q","R","S","T","U","V","W","X","Y","Z">>

LowerCase == <<"a","b","c","d","e","f","g","h","i","j","k","l","m","n","o","p","q","r","s","t","u","v","w","x","y","z">>

IsUpper(c) == \E i \in 1..Len(UpperCase) : UpperCase[i] = c

IsLower(c) == \E i \in 1..Len(LowerCase) : LowerCase[i] = c

LowerChar(c) ==
    IF IsUpper(c) THEN LowerCase[CHOOSE i \in 1..Len(UpperCase) : UpperCase[i] = c] ELSE c

UpperChar(c) ==
    IF IsLower(c) THEN UpperCase[CHOOSE i \in 1..Len(LowerCase) : LowerCase[i] = c] ELSE c

\* str.lower()
Lower(s) == [i \in 1..Len(s) |-> LowerChar(s[i])]

\* str.strip(): drop leading and trailing whitespace.
RECURSIVE LStrip(_)
LStrip(s) == IF s # <<>> /\ IsWs(Head(s)) THEN LStrip(Tail(s)) ELSE s

RECURSIVE RStrip(_)
RStrip(s) == IF s # <<>> /\ IsWs(s[Len(s)]) THEN RStrip(SubSeq(s, 1, Len(s) - 1)) ELSE s

Strip(s) == RStrip(LStrip(s))

\* re.sub(r"\s+", " ", s): every maximal run of whitespace becomes one space.
RECURSIVE CollapseWs(_)
CollapseWs(s) ==
    IF s = <<>> THEN <<>>
    ELSE IF IsWs(Head(s))
         THEN <<" ">> \o CollapseWs(LStrip(s))
         ELSE <<Head(s)>> \o CollapseWs(Tail(s))

\* utils.normalize_ws
normalize_ws(s) == Strip(CollapseWs(s))

\* The first index of the maximal whitespace run of t that ends at index e
\* (e + 1 when t[e] is not whitespace).
RECURSIVE WsRunStart(_, _)
WsRunStart(t, e) == IF e >= 1 /\ IsWs(t[e]) THEN WsRunStart(t, e - 1) ELSE e + 1

\* re.sub(r"\s+-\s+<word>$", "", t): the match is anchored at the end of t, so
\* there is at most one; it starts at the first character of the whitespace
\* run before the dash. (t is whitespace-normalized here, it ends in no newline.)
StripSuffix(t, word) ==
    LET n == Len(t)
        k == Len(word)
    IN  IF n < k + 3 \/ SubSeq(t, n - k + 1, n) # word THEN t
        ELSE LET w2 == WsRunStart(t, n - k)
                 dash == w2 - 1
             IN  IF w2 > n - k \/ dash < 1 \/ t[dash] # "-" THEN t
                 ELSE LET w1 == WsRunStart(t, dash - 1)
                      IN  IF w1 > dash - 1 THEN t ELSE SubSeq(t, 1, w1 - 1)

\* The publisher names of the suffix patterns, in the order the code applies them.
PublisherSuffixes ==
    << <<"r","e","u","t","e","r","s">>,
       <<"b","l","o","o","m","b","e","r","g">>,
       <<"f","i","n","a","n","c","i","a","l"," ","t","i","m","e","s">>,
       <<"t","h","e"," ","e","c","o","n","o","m","i","s","t">>,
       <<"w","s","j">> >>

\* The five re.sub calls, one after the other on the running value of t.
RECURSIVE StripSuffixesFrom(_, _)
StripSuffixesFrom(t, i) ==
    IF i > Len(PublisherSuffixes) THEN t
    ELSE StripSuffixesFrom(StripSuffix(t, PublisherSuffixes[i]), i + 1)

\* utils.normalize_title_for_hash (source_id is accepted and not used)
normalize_title_for_hash(title, source_id) ==
    StripSuffixesFrom(normalize_ws(Lower(title)), 1)

\* hashlib.sha256(...).hexdigest(), modelled as injective: the digest is its
\* preimage under a tag.
sha256_hexdigest(base) == <<"sha256", base>>

\* The f-string of stable_item_id: the three parts joined by "|".
CompositeBase(source_id, title, url) ==
    source_id \o <<"|">> \o normalize_title_for_hash(title, source_id) \o <<"|">> \o url

\* A mutant of stable_item_id: the guid is ignored.
stable_item_id_NoGuid(source_id, title, url, guid) ==
    sha256_hexdigest(CompositeBase(source_id, title, url))

\* utils.stable_item_id: base = guid or f"{source_id}|{normalized title}|{url}"
stable_item_id(source_id, title, url, guid) ==
    sha256_hexdigest(IF Truthy(guid) THEN guid ELSE CompositeBase(source_id, title, url))

-----------------------------------------------------------------------------
(* The store. A table is a bag of rows (a function from rows to their number *)
(* of copies): SQL tables are multisets, and a key is unique only as far as  *)
(* the conflict clause of each statement keeps it so.                        *)

EmptyTable == <<>>

Rows(t) == DOMAIN t

\* The number of rows of a table (SELECT COUNT(*)).
RowCount(t) == BagCardinality(t)

\* INSERT with no conflict clause and no key: one more copy of the row.
PlainInsert(t, row) ==
    IF row \in DOMAIN t THEN [t EXCEPT ![row] = @ + 1]
    ELSE [r \in DOMAIN t \cup {row} |-> IF r = row THEN 1 ELSE t[r]]

\* DELETE FROM t WHERE the row is in gone.
DeleteRows(t, gone) == [r \in DOMAIN t \ gone |-> t[r]]

\* A NULL timestamp is <<>>, a timestamp t is <<t>>.
NullTime == <<>>

\* A NULL http status is <<>>, a status n is <<n>>.
NoStatus == <<>>

\* ingest._last_fetch_status as the module is loaded.
InitialFetchStatus == [last_run_utc |-> NullTime, last_error |-> None, items_added |-> 0]

\* The database as one value.
DB == [items |-> items, signals |-> signals, item_tags |-> item_tags, tags |-> tags,
       maintenance |-> maintenance, source_status |-> source_status, sources |-> sources]

ItemRow(item) ==
    [item_id |-> item.item_id, source_id |-> item.source_id,
     published_at |-> item.published_at, fetched_at |-> item.fetched_at,
     title |-> item.title, url |-> item.url, guid |-> item.guid, summary |-> item.summary]

SignalRow(item) ==
    [item_id |-> item.item_id, direction |-> item.direction, urgency |-> item.urgency,
     mode |-> item.mode, scorer |-> "rules_v0"]

ItemTagRow(item_id, tag) == [item_id |-> item_id, tag |-> tag, tagger |-> "rules_v1"]

TagRow(tag, tag_type) == [tag |-> tag, tag_type |-> tag_type]

\* A mutant of ReplaceItem: INSERT OR IGNORE, the stored row wins.
ReplaceItem_Ignore(t, row) ==
    IF \E r \in Rows(t) : r.item_id = row.item_id THEN t ELSE PlainInsert(t, row)

\* A mutant of ReplaceItem: INSERT without OR REPLACE on a table without key.
ReplaceItem_PlainInsert(t, row) == PlainInsert(t, row)

\* INSERT OR REPLACE INTO items: the rows with the key item_id give way.
ReplaceItem(t, row) ==
    PlainInsert(DeleteRows(t, {r \in Rows(t) : r.item_id = row.item_id}), row)

\* A mutant of ReplaceSignal: INSERT OR IGNORE, the stored row wins.
ReplaceSignal_Ignore(t, row) ==
    IF \E r \in Rows(t) : r.item_id = row.item_id THEN t ELSE PlainInsert(t, row)

\* A mutant of ReplaceSignal: INSERT without OR REPLACE on a table without key.
ReplaceSignal_PlainInsert(t, row) == PlainInsert(t, row)

\* INSERT OR REPLACE INTO signals: the rows with the key item_id give way.
ReplaceSignal(t, row) ==
    PlainInsert(DeleteRows(t, {r \in Rows(t) : r.item_id = row.item_id}), row)

\* INSERT OR IGNORE INTO tags: nothing happens when the tag is there.
IgnoreTag(t, row) ==
    IF \E r \in Rows(t) : r.tag = row.tag THEN t ELSE PlainInsert(t, row)

\* A mutant of IgnoreItemTag: INSERT without OR IGNORE on a table without key.
IgnoreItemTag_PlainInsert(t, row) == PlainInsert(t, row)

\* A mutant of IgnoreItemTag: INSERT OR REPLACE after clearing the item's tags.
IgnoreItemTag_Retag(t, row) ==
    PlainInsert(DeleteRows(t, {r \in Rows(t) : r.item_id = row.item_id}), row)

\* INSERT OR IGNORE INTO item_tags: nothing happens when (item_id, tag) is there.
IgnoreItemTag(t, row) ==
    IF \E r \in Rows(t) : r.item_id = row.item_id /\ r.tag = row.tag THEN t
    ELSE PlainInsert(t, row)

\* One of the three tag loops of upsert_item_and_annotations: for each label,
\* in order, the vocabulary row and then the join row.
RECURSIVE TagLoop(_, _, _, _)
TagLoop(db, item_id, labels, tag_type) ==
    IF labels = <<>> THEN db
    ELSE TagLoop([db EXCEPT !.tags = IgnoreTag(@, TagRow(Head(labels), tag_type)),
                            !.item_tags = IgnoreItemTag(@, ItemTagRow(item_id, Head(labels)))],
                 item_id, Tail(labels), tag_type)

\* db.upsert_item_and_annotations
upsert_item_and_annotations(db, item) ==
    LET d1 == [db EXCEPT !.items = ReplaceItem(@, ItemRow(item))]
        d2 == [d1 EXCEPT !.signals = ReplaceSignal(@, SignalRow(item))]
        d3 == TagLoop(d2, item.item_id, item.topics, "topic")
        d4 == TagLoop(d3, item.item_id, item.asset_classes, "asset_class")
    IN  TagLoop(d4, item.item_id, item.geo_tags, "geo")

\* The retention period RSS_DASH_RETENTION_DAYS in ticks of the clock (the code
\* reads it from the environment, 90 when unset).
RetentionDays == 1

\* db.get_retention_days
get_retention_days == RetentionDays

\* The clock counts ticks, this many to the day.
TicksPerDay == 2

\* The timestamps of the items table are isoformat() strings of aware UTC
\* datetimes, "...+00:00": the model holds the UTC time of each in ticks. Two
\* ISO strings compare as their wall-clock times do.
\* The timestamp run_cleanup compares: published_at if present, else fetched_at.
EffectiveTime(r) == IF r.published_at # NullTime THEN r.published_at[1] ELSE r.fetched_at

\* datetime.now(): the naive local time when the UTC time is t.
LocalNow(t) == t + tz

\* isoformat() of the aware datetime.now(timezone.utc) at UTC time t: the
\* wall-clock time and the UTC offset (the offset of a naive one is <<>>).
IsoAware(t) == [wall |-> t, offset |-> <<0>>]

\* db.set_maintenance_state: INSERT OR REPLACE INTO maintenance_state
set_maintenance_state(t, key, value, at) ==
    PlainInsert(DeleteRows(t, {r \in Rows(t) : r.key = key}),
                [key |-> key, value |-> value, updated_at |-> at])

\* db.get_maintenance_state: <<>> for None, else <<value>>.
get_maintenance_state(t, key) ==
    IF \E r \in Rows(t) : r.key = key
    THEN <<(CHOOSE r \in Rows(t) : r.key = key).value>>
    ELSE <<>>

\* cutoff.isoformat(): the naive local time less the retention period.
Cutoff(t) == LocalNow(t) - get_retention_days * TicksPerDay

\* The item_id list run_cleanup selects: the stored UTC strings that compare
\* below the string of the cutoff.
OldItemIds(db, t) ==
    {r.item_id : r \in {x \in Rows(db.items) : EffectiveTime(x) < Cutoff(t)}}

\* A mutant of run_cleanup: the rows of the child tables are left behind.
run_cleanup_ItemsOnly(db, t) ==
    LET old == OldItemIds(db, t)
    IN  IF old = {} THEN db
        ELSE [db EXCEPT
                !.items = DeleteRows(@, {r \in Rows(@) : r.item_id \in old}),
                !.maintenance = set_maintenance_state(@, "last_cleanup", IsoAware(t), IsoAware(t))]

\* A mutant of run_cleanup: the signals of the deleted items are left behind.
run_cleanup_KeepSignals(db, t) ==
    LET old == OldItemIds(db, t)
    IN  IF old = {} THEN db
        ELSE [db EXCEPT
                !.item_tags = DeleteRows(@, {r \in Rows(@) : r.item_id \in old}),
                !.items = DeleteRows(@, {r \in Rows(@) : r.item_id \in old}),
                !.maintenance = set_maintenance_state(@, "last_cleanup", IsoAware(t), IsoAware(t))]

\* A mutant of run_cleanup: one old item is deleted by each call.
run_cleanup_OneByOne(db, t) ==
    LET all == OldItemIds(db, t)
        old == IF all = {} THEN {} ELSE {CHOOSE i \in all : TRUE}
    IN  IF old = {} THEN db
        ELSE [db EXCEPT
                !.item_tags = DeleteRows(@, {r \in Rows(@) : r.item_id \in old}),
                !.signals = DeleteRows(@, {r \in Rows(@) : r.item_id \in old}),
                !.items = DeleteRows(@, {r \in Rows(@) : r.item_id \in old}),
                !.maintenance = set_maintenance_state(@, "last_cleanup", IsoAware(t), IsoAware(t))]

\* A mutant of run_cleanup: the Tag rows that no ItemTag row uses any more
\* are deleted with the old items.
run_cleanup_PruneTags(db, t) ==
    LET old == OldItemIds(db, t)
        kept == DeleteRows(db.item_tags, {r \in Rows(db.item_tags) : r.item_id \in old})
    IN  IF old = {} THEN db
        ELSE [db EXCEPT
                !.item_tags = kept,
                !.signals = DeleteRows(@, {r \in Rows(@) : r.item_id \in old}),
                !.items = DeleteRows(@, {r \in Rows(@) : r.item_id \in old}),
                !.tags = DeleteRows(@, {g \in Rows(@) : \A r \in Rows(kept) : r.tag # g.tag}),
                !.maintenance = set_maintenance_state(@, "last_cleanup", IsoAware(t), IsoAware(t))]

\* db.run_cleanup at UTC time t: the database it leaves, as the connection of
\* the call sees it (run_cleanup issues no commit).
run_cleanup(db, t) ==
    LET old == OldItemIds(db, t)
    IN  IF old = {} THEN db
        ELSE [db EXCEPT
                !.item_tags = DeleteRows(@, {r \in Rows(@) : r.item_id \in old}),
                !.signals = DeleteRows(@, {r \in Rows(@) : r.item_id \in old}),
                !.items = DeleteRows(@, {r \in Rows(@) : r.item_id \in old}),
                !.maintenance = set_maintenance_state(@, "last_cleanup", IsoAware(t), IsoAware(t))]

\* The counts of rows of the old items in db: what run_cleanup returns when
\* it is applied to db.
CleanupStats(db, t) ==
    LET old == OldItemIds(db, t)
        n(tbl) == RowCount(DeleteRows(tbl, {r \in Rows(tbl) : r.item_id \notin old}))
    IN  [items_deleted |-> n(db.items), tags_deleted |-> n(db.item_tags),
         signals_deleted |-> n(db.signals)]

ZeroStats == [items_deleted |-> 0, tags_deleted |-> 0, signals_deleted |-> 0]

\* timedelta(hours=24), in ticks.
Cooldown == TicksPerDay

\* The cases of db.maybe_run_daily_cleanup at UTC time t, by the stored
\* last_cleanup: "absent" (None or ""), "TypeError" (the string is that of an
\* aware datetime, which datetime.now() - last_cleanup cannot be computed
\* with), "recent" (less than 24 hours before the naive local time) or "due".
CooldownCase(db, t) ==
    LET v == get_maintenance_state(db.maintenance, "last_cleanup")
    IN  IF v = <<>> THEN "absent"
        ELSE IF v[1].offset # <<>> THEN "TypeError"
        ELSE IF LocalNow(t) - v[1].wall < Cooldown THEN "recent"
        ELSE "due"

\* db.maybe_run_daily_cleanup at UTC time t: the database it leaves, the
\* counts it returns, whether an exception leaves it and whether it called
\* run_cleanup.
maybe_run_daily_cleanup(db, t) ==
    LET c == CooldownCase(db, t)
    IN  IF c = "TypeError"
        THEN [db |-> db, stats |-> ZeroStats, raised |-> TRUE, ran |-> FALSE]
        ELSE IF c = "recent"
        THEN [db |-> db, stats |-> ZeroStats, raised |-> FALSE, ran |-> FALSE]
        ELSE [db |-> run_cleanup(db, t), stats |-> CleanupStats(db, t), raised |-> FALSE,
              ran |-> TRUE]

\* The rows of one item in the three content tables.
RowsOf(db, item_id) ==
    [items |-> {r \in Rows(db.items) : r.item_id = item_id},
     signals |-> {r \in Rows(db.signals) : r.item_id = item_id},
     item_tags |-> {r \in Rows(db.item_tags) : r.item_id = item_id},
     n_items |-> RowCount(db.items)]

\* The database after db, written to the variables.
Commit(db) ==
    /\ items' = db.items
    /\ signals' = db.signals
    /\ item_tags' = db.item_tags
    /\ tags' = db.tags
    /\ maintenance' = db.maintenance
    /\ source_status' = db.source_status
    /\ sources' = db.sources

-----------------------------------------------------------------------------
(* The rule engine. Every pattern kept here has the shape \bw\b or \bw(s)?\b  *)
(* and so on: under re.IGNORECASE it matches a title exactly when one of its  *)
(* alternatives is, lower-cased, a maximal run of word characters of the      *)
(* title. A pattern is kept as the set of those lower-case words; the tables  *)
(* keep the labels of the source in the order of the source, each with the    *)
(* patterns of this shape that the titles of the model can meet.              *)

IsWordChar(c) == IsUpper(c) \/ IsLower(c) \/ c \in {"0","1","2","3","4","5","6","7","8","9","_"}

\* The places of text s where a run of word characters starts.
RunStarts(s) == {i \in 1..Len(s) : IsWordChar(s[i]) /\ (i = 1 \/ ~IsWordChar(s[i - 1]))}

\* The places of text s where a run of word characters ends.
RunEnds(s) == {j \in 1..Len(s) : IsWordChar(s[j]) /\ (j = Len(s) \/ ~IsWordChar(s[j + 1]))}

\* The maximal runs of word characters of text s, each as <<first, last>>.
WordRuns(s) ==
    { p \in RunStarts(s) \X RunEnds(s) :
        p[1] <= p[2] /\ \A k \in p[1]..p[2] : IsWordChar(s[k]) }

\* The lower-cased maximal runs of word characters of text s.
TitleWords(s) ==
    LET t == Lower(s)
    IN  { SubSeq(t, p[1], p[2]) : p \in WordRuns(t) }

\* rules.regex_any: some pattern of the list is found in the text.
regex_any(patterns, text) == patterns \cap TitleWords(text) # {}

\* rules.regex_any on patterns of the shape \ba\b.*\bb\b, each kept as the
\* words of a and the words of b: a run of a, later on the same line a run of b.
regex_any_span(spans, text) ==
    LET t == Lower(text)
    IN  \E sp \in spans : \E a \in WordRuns(t) : \E b \in WordRuns(t) :
            /\ SubSeq(t, a[1], a[2]) \in sp.first
            /\ SubSeq(t, b[1], b[2]) \in sp.later
            /\ a[2] < b[1]
            /\ \A k \in (a[2] + 1)..(b[1] - 1) : t[k] # "\n"

\* rules_config.DEFAULT_TOPIC_RULES (rates, fed, credit, energy)
TOPIC_RULES ==
    << [label |-> "rates", words |-> {<<"r","a","t","e">>, <<"r","a","t","e","s">>, <<"y","i","e","l","d">>, <<"y","i","e","l","d","s">>}],
       [label |-> "fed", words |-> {<<"f","e","d">>, <<"f","o","m","c">>, <<"p","o","w","e","l","l">>}],
       [label |-> "credit", words |-> {<<"c","r","e","d","i","t">>, <<"d","e","f","a","u","l","t">>, <<"d","e","f","a","u","l","t","s">>}],
       [label |-> "energy", words |-> {<<"e","n","e","r","g","y">>, <<"o","i","l">>, <<"g","a","s">>}] >>

\* rules_config.DEFAULT_ASSET_CLASS_RULES (rates, credit, commodities)
ASSET_CLASS_RULES ==
    << [label |-> "rates", words |-> {<<"b","o","n","d">>, <<"b","o","n","d","s">>, <<"y","i","e","l","d">>, <<"y","i","e","l","d","s">>}],
       [label |-> "credit", words |-> {<<"c","r","e","d","i","t">>}],
       [label |-> "commodities", words |-> {<<"g","o","l","d">>, <<"o","i","l">>}] >>

\* rules_config.DEFAULT_GEO_RULES (US, China)
GEO_RULES ==
    << [label |-> "US", words |-> {<<"u","s">>, <<"a","m","e","r","i","c","a">>, <<"f","o","m","c">>}],
       [label |-> "China", words |-> {<<"c","h","i","n","a">>, <<"b","e","i","j","i","n","g">>}] >>

\* rules.NEG_CUES
NEG_CUES == {<<"f","a","l","l">>, <<"f","a","l","l","s">>, <<"f","a","l","l","i","n","g">>, <<"r","i","s","k">>, <<"r","i","s","k","s">>, <<"c","r","i","s","i","s">>, <<"d","e","f","a","u","l","t">>, <<"d","e","f","a","u","l","t","s">>, <<"d","e","f","a","u","l","t","e","d">>, <<"p","a","n","i","c">>}

\* rules.POS_CUES
POS_CUES == {<<"r","a","l","l","y">>, <<"s","u","r","g","e">>, <<"s","u","r","g","e","s">>, <<"s","u","r","g","e","d">>, <<"s","t","r","o","n","g">>, <<"r","e","c","o","r","d">>}

\* rules.URG_HIGH
URG_HIGH == {<<"c","r","i","s","i","s">>, <<"p","a","n","i","c">>, <<"s","u","r","g","e">>, <<"s","u","r","g","e","s">>, <<"s","u","r","g","e","d">>, <<"s","h","o","c","k">>}

\* rules.URG_MED
URG_MED == {<<"p","r","e","s","s","u","r","e">>, <<"c","o","n","c","e","r","n">>, <<"c","o","n","c","e","r","n","s">>, <<"r","i","s","k">>, <<"r","i","s","k","s">>}

\* rules.MODE_RULES, in the order of the source. words holds the one-word
\* patterns of a pair and spans its patterns of the shape \ba\b.*\bb\b.
MODE_RULES ==
    << [label |-> "explain", words |-> {<<"w","h","y">>, <<"e","x","p","l","a","i","n","e","r">>, <<"h","o","w">>}, spans |-> {}],
       [label |-> "warn", words |-> {<<"w","a","r","n","i","n","g">>, <<"r","i","s","k">>, <<"r","i","s","k","s">>, <<"t","h","r","e","a","t">>, <<"c","o","u","l","d">>, <<"m","a","y">>}, spans |-> {}],
       [label |-> "opportunity", words |-> {<<"b","u","y">>, <<"u","n","d","e","r","v","a","l","u","e","d">>, <<"o","p","p","o","r","t","u","n","i","t","y">>}, spans |-> {}],
       [label |-> "posthoc", words |-> {},
        spans |-> { [first |-> {<<"a","s">>},
                     later |-> {<<"f","a","l","l">>, <<"f","a","l","l","s">>, <<"f","a","l","l","i","n","g">>}],
                    [first |-> {<<"a","f","t","e","r">>},
                     later |-> {<<"d","r","o","p">>, <<"d","r","o","p","s">>, <<"d","r","o","p","p","e","d">>}],
                    [first |-> {<<"f","o","l","l","o","w","i","n","g">>},
                     later |-> {<<"s","e","l","l","o","f","f">>}] }],
       [label |-> "policy", words |-> {<<"f","e","d">>, <<"f","o","m","c">>, <<"t","r","e","a","s","u","r","y">>, <<"e","c","b">>}, spans |-> {}] >>

\* The labels of a rule table whose patterns hit the title, in table order.
RECURSIVE TagHits(_, _)
TagHits(table, title) ==
    IF table = <<>> THEN <<>>
    ELSE (IF regex_any(Head(table).words, title) THEN <<Head(table).label>> ELSE <<>>)
         \o TagHits(Tail(table), title)

\* rules.tag_topics
tag_topics(title) == TagHits(TOPIC_RULES, title)

\* rules.tag_asset_class
tag_asset_class(title) == TagHits(ASSET_CLASS_RULES, title)

\* rules.tag_geo
tag_geo(title) == TagHits(GEO_RULES, title)

\* classify_direction with the single-sign outcomes checked before mixed.
classify_direction_NegFirst(title) ==
    LET has_neg == regex_any(NEG_CUES, title)
        has_pos == regex_any(POS_CUES, title)
    IN  IF has_neg THEN "neg"
        ELSE IF has_pos THEN "pos"
        ELSE IF has_neg /\ has_pos THEN "mixed"
        ELSE "neutral"

\* rules.classify_direction
classify_direction(title) ==
    LET has_neg == regex_any(NEG_CUES, title)
        has_pos == regex_any(POS_CUES, title)
    IN  IF has_neg /\ has_pos THEN "mixed"
        ELSE IF has_neg THEN "neg"
        ELSE IF has_pos THEN "pos"
        ELSE "neutral"

\* classify_urgency with the medium cues checked before the high ones.
classify_urgency_MedFirst(title) ==
    IF regex_any(URG_MED, title) THEN "med"
    ELSE IF regex_any(URG_HIGH, title) THEN "high"
    ELSE "low"

\* rules.classify_urgency
classify_urgency(title) ==
    IF regex_any(URG_HIGH, title) THEN "high"
    ELSE IF regex_any(URG_MED, title) THEN "med"
    ELSE "low"

\* regex_any(pats, t) for the patterns of one pair of MODE_RULES.
ModeMatch(rule, title) ==
    IF rule.spans = {} THEN regex_any(rule.words, title)
    ELSE IF regex_any(rule.words, title) THEN TRUE
    ELSE regex_any_span(rule.spans, title)

\* classify_mode with no return inside the loop: the last matching pair wins.
RECURSIVE ModeFrom_LastWins(_, _)
ModeFrom_LastWins(i, title) ==
    IF i > Len(MODE_RULES) THEN "unknown"
    ELSE LET rest == ModeFrom_LastWins(i + 1, title)
         IN  IF rest # "unknown" THEN rest
             ELSE IF ModeMatch(MODE_RULES[i], title) THEN MODE_RULES[i].label
             ELSE "unknown"

\* The loop of classify_mode over the pairs of MODE_RULES from index i on.
RECURSIVE ModeFrom(_, _)
ModeFrom(i, title) ==
    IF i > Len(MODE_RULES) THEN "unknown"
    ELSE IF ModeMatch(MODE_RULES[i], title) THEN MODE_RULES[i].label
    ELSE ModeFrom(i + 1, title)

\* rules.classify_mode
classify_mode(title) == ModeFrom(1, title)

\* A row of table sources: 1 if s.get("enabled", True) else 0.
SourceRow(s) ==
    [source_id |-> s.source_id, rss_url |-> s.rss_url,
     enabled |-> IF "enabled" \in DOMAIN s THEN (IF s.enabled THEN 1 ELSE 0) ELSE 1]

\* INSERT OR REPLACE INTO sources: the key is source_id.
ReplaceSource(t, row) ==
    PlainInsert(DeleteRows(t, {r \in Rows(t) : r.source_id = row.source_id}), row)

\* db.init_db: the sources table after seeding it with the configured sources.
RECURSIVE init_db_sources(_, _)
init_db_sources(t, configured) ==
    IF configured = <<>> THEN t
    ELSE init_db_sources(ReplaceSource(t, SourceRow(Head(configured))), Tail(configured))

\* The seeding loops of init_db: INSERT OR IGNORE of the labels of one table.
RECURSIVE SeedTags(_, _, _)
SeedTags(t, table, tag_type) ==
    IF table = <<>> THEN t
    ELSE SeedTags(IgnoreTag(t, TagRow(Head(table).label, tag_type)), Tail(table), tag_type)

\* db.init_db: the tags table after seeding (topics, then asset classes, then geo).
init_db_tags ==
    SeedTags(SeedTags(SeedTags(EmptyTable, TOPIC_RULES, "topic"),
                      ASSET_CLASS_RULES, "asset_class"),
             GEO_RULES, "geo")

-----------------------------------------------------------------------------
(* SpecId: stable_item_id on an entry and on its variations *)

\* The number of variations applied to an entry.
MaxEdits == 2

TxtS == <<"s">>

TxtR == <<"r">>

TxtA == <<"a">>

TxtAB == <<"a","|","b">>

TxtU == <<"u">>

TxtBU == <<"b","|","u">>

TxtG == <<"g">>

TxtSAU == <<"s","|","a","|","u">>

TxtUp == <<"U","p">>

TxtUpReuters == <<"U","p"," ","-"," ","R","e","u","t","e","r","s">>

\* The publisher suffixes as feeds append them.
DisplaySuffixes ==
    { <<" ","-"," ","R","e","u","t","e","r","s">>,
      <<" ","-"," ","B","l","o","o","m","b","e","r","g">>,
      <<" ","-"," ","F","i","n","a","n","c","i","a","l"," ","T","i","m","e","s">>,
      <<" ","-"," ","T","h","e"," ","E","c","o","n","o","m","i","s","t">>,
      <<" ","-"," ","W","S","J">> }

IdSources == {TxtS, TxtR}

IdTitles == {TxtA, TxtAB, TxtUp, TxtUpReuters}

IdUrls == {TxtU, TxtBU}

IdGuids == {None, <<>>, TxtG, TxtSAU}

EditKinds == {"source", "url", "guid", "title", "case", "ws", "suffix"}

NEdits == edits["source"] + edits["url"] + edits["guid"] + edits["title"]
          + edits["case"] + edits["ws"] + edits["suffix"]

\* stable_item_id as fetch_once calls it on an entry.
IdOf(e) == stable_item_id(e.source_id, e.title, e.url, e.guid)

InitId ==
    /\ entryA \in [source_id : {TxtS}, title : IdTitles, url : IdUrls, guid : {None, TxtG}]
    /\ entryB = entryA
    /\ idA = IdOf(entryA)
    /\ idB = IdOf(entryA)
    /\ edits = [k \in EditKinds |-> 0]

\* entryB becomes e, of which the identifier is computed; kind is counted.
Vary(e, kind) ==
    /\ NEdits < MaxEdits
    /\ e # entryB
    /\ entryB' = e
    /\ idB' = IdOf(e)
    /\ edits' = [edits EXCEPT ![kind] = @ + 1]
    /\ UNCHANGED <<entryA, idA>>
    /\ UNCHANGED <<dbVars, gwVars, exVars>>

EditSource == \E s \in IdSources : Vary([entryB EXCEPT !.source_id = s], "source")

EditUrl == \E u \in IdUrls : Vary([entryB EXCEPT !.url = u], "url")

EditGuid == \E g \in IdGuids : Vary([entryB EXCEPT !.guid = g], "guid")

EditTitle == \E t \in IdTitles : Vary([entryB EXCEPT !.title = t], "title")

\* One letter of the title changes case.
EditCase ==
    \E i \in 1..Len(entryB.title) :
        LET c == entryB.title[i]
        IN  /\ IsUpper(c) \/ IsLower(c)
            /\ Vary([entryB EXCEPT !.title[i] = IF IsUpper(c) THEN LowerChar(c) ELSE UpperChar(c)],
                    "case")

\* A run of whitespace of the title grows by one whitespace character.
EditWs ==
    \E i \in 1..Len(entryB.title), c \in WsChars :
        /\ IsWs(entryB.title[i])
        /\ Vary([entryB EXCEPT !.title = SubSeq(@, 1, i) \o <<c>> \o SubSeq(@, i + 1, Len(@))],
                "ws")

\* A publisher suffix is appended to the title.
EditSuffix == \E p \in DisplaySuffixes : Vary([entryB EXCEPT !.title = @ \o p], "suffix")

NextId == EditSource \/ EditUrl \/ EditGuid \/ EditTitle \/ EditCase \/ EditWs \/ EditSuffix

\* fetch_feed_with_timeout is not part of SpecId, Spec and SpecIngest.
IdleGw ==
    /\ rss_url = <<>>
    /\ attempt = 0
    /\ requests = <<>>
    /\ returned = <<>>

\* The classifiers are not called on their own outside SpecRules.
IdleRl ==
    /\ cl_title = <<>>
    /\ cl_direction = <<>>
    /\ cl_urgency = <<>>
    /\ cl_mode = <<>>

\* No thread runs fetch_loop outside SpecLoop.
IdleLp ==
    /\ lp_pc = "idle"
    /\ stop_event = FALSE
    /\ lp_hist = [cycles |-> 0, late |-> 0, stop_at |-> "unset"]

\* No two runs of fetch_once meet outside SpecRace.
IdleCc ==
    /\ cc_runs = <<>>
    /\ cc_lock = "free"
    /\ cc_payload = <<>>
    /\ cc_hist = <<>>

\* No rule table is loaded outside SpecConfig.
IdleCf ==
    /\ cf_file = <<>>
    /\ cf_loaded = <<>>

IdleEx == IdleRl /\ IdleLp /\ IdleCc /\ IdleCf

\* The store is not part of SpecId and SpecFetch.
IdleDb ==
    /\ items = EmptyTable
    /\ signals = EmptyTable
    /\ item_tags = EmptyTable
    /\ tags = EmptyTable
    /\ maintenance = EmptyTable
    /\ source_status = EmptyTable
    /\ sources = EmptyTable
    /\ archives = {}
    /\ fetch_status = InitialFetchStatus
    /\ now = 0
    /\ last = [kind |-> "init"]
    /\ tz = 0

\* Two equal entries with their identifiers, beside an untouched store and
\* with no call of fetch_feed_with_timeout.
InitSpecId == InitId /\ IdleDb /\ IdleGw /\ IdleEx

SpecId == InitSpecId /\ [][NextId]_vars

\* The normalized title of an entry, as stable_item_id hashes it.
NormTitle(e) == normalize_title_for_hash(e.title, e.source_id)

\* C8: stable_item_id is deterministic (the same source_id, title, url and guid
\* give the same identifier whenever it is computed), and for a fixed source_id
\* and non-empty guid the identifier does not depend on the title or the url
\* (the summary is no input of the function).
C8_GuidDeterminesId ==
    /\ entryA = entryB => idA = idB
    /\ (/\ entryA.source_id = entryB.source_id
        /\ Truthy(entryA.guid)
        /\ entryA.guid = entryB.guid) => idA = idB

\* C8 witness: two entries of one source with the same guid, another title and
\* another url, and the same identifier.
C8_Witness ==
    /\ entryA.source_id = entryB.source_id
    /\ Truthy(entryA.guid)
    /\ entryA.guid = entryB.guid
    /\ NormTitle(entryA) # NormTitle(entryB)
    /\ entryA.url # entryB.url
    /\ idA = idB

\* C9 as stated: entries without a guid that differ in source_id, in url or in
\* normalized title get different identifiers, and adding a guid to an entry
\* changes its identifier.
C9_AsStated ==
    /\ (/\ ~Truthy(entryA.guid)
        /\ ~Truthy(entryB.guid)
        /\ \/ entryA.source_id # entryB.source_id
           \/ entryA.url # entryB.url
           \/ NormTitle(entryA) # NormTitle(entryB)) => idA # idB
    /\ (/\ ~Truthy(entryA.guid)
        /\ Truthy(entryB.guid)
        /\ entryA.source_id = entryB.source_id
        /\ entryA.title = entryB.title
        /\ entryA.url = entryB.url) => idA # idB

\* C10 as stated: without a guid and with the same source_id and url, titles
\* that differ only in letter case, in runs of whitespace or in one trailing
\* publisher suffix map to the same identifier.
C10_AsStated ==
    (/\ ~Truthy(entryA.guid)
     /\ edits["source"] = 0 /\ edits["url"] = 0 /\ edits["guid"] = 0 /\ edits["title"] = 0
     /\ edits["suffix"] <= 1) => idA = idB

-----------------------------------------------------------------------------
(* Spec: the store under upsert_item_and_annotations, run_cleanup and       *)
(* maybe_run_daily_cleanup                                                 *)

\* The last tick of the clock.
MaxTime == 4

\* The last tick of the clock at which a run of fetch_once starts.
MaxFetchTime == 2

\* The largest offset of local time from UTC, in ticks, east or west.
MaxOffset == 1

\* The offsets local time has from UTC: the zone of the process, TZ.
LocalOffsets == (0 - MaxOffset)..MaxOffset

\* The item dicts handed to upsert_item_and_annotations. Two of them share
\* item_id i1 and differ in content, classification and labels; the first has
\* the label "rates" in two of its lists.
ItemDicts ==
    { [item_id |-> "i1", source_id |-> "s1", published_at |-> NullTime, fetched_at |-> 0,
       title |-> "t1", url |-> "u1", guid |-> "none", summary |-> "m1",
       direction |-> "neutral", urgency |-> "low", mode |-> "policy",
       topics |-> <<"rates", "fed">>, asset_classes |-> <<"rates">>, geo_tags |-> <<"US">>],
      [item_id |-> "i1", source_id |-> "s1", published_at |-> <<0>>, fetched_at |-> 0,
       title |-> "t2", url |-> "u2", guid |-> "g1", summary |-> "none",
       direction |-> "neg", urgency |-> "med", mode |-> "warn",
       topics |-> <<"fed">>, asset_classes |-> <<>>, geo_tags |-> <<>>],
      [item_id |-> "i2", source_id |-> "s2", published_at |-> NullTime, fetched_at |-> 0,
       title |-> "t3", url |-> "u3", guid |-> "none", summary |-> "m3",
       direction |-> "pos", urgency |-> "high", mode |-> "unknown",
       topics |-> <<"energy">>, asset_classes |-> <<"commodities">>, geo_tags |-> <<>>] }

\* The sources of the configuration the item dicts of Spec come from.
ConfiguredSources ==
    << [source_id |-> "s1", rss_url |-> "r1"], [source_id |-> "s2", rss_url |-> "r2"] >>

InitDb ==
    /\ items = EmptyTable
    /\ signals = EmptyTable
    /\ item_tags = EmptyTable
    /\ tags = init_db_tags
    /\ maintenance = EmptyTable
    /\ source_status = EmptyTable
    /\ archives = {}
    /\ fetch_status = InitialFetchStatus
    /\ now = 0
    /\ last = [kind |-> "init"]

\* The identity variables are not part of Spec and SpecIngest.
IdleId ==
    /\ entryA = [source_id |-> TxtS, title |-> TxtA, url |-> TxtU, guid |-> None]
    /\ entryB = entryA
    /\ idA = IdOf(entryA)
    /\ idB = idA
    /\ edits = [k \in EditKinds |-> 0]

\* One call of upsert_item_and_annotations, with fetched_at read from the clock
\* as its caller fetch_once does.
Upsert ==
    \E d \in ItemDicts :
        LET item == [d EXCEPT !.fetched_at = now]
        IN  /\ Commit(upsert_item_and_annotations(DB, item))
            /\ last' = [kind |-> "upsert", item |-> item, before |-> RowsOf(DB, item.item_id)]
            /\ UNCHANGED <<now, tz, fetch_status, archives>>
            /\ UNCHANGED <<idVars, gwVars, exVars>>

\* One call of run_cleanup.
RunCleanup ==
    /\ Commit(run_cleanup(DB, now))
    /\ last' = [kind |-> "cleanup", stats |-> CleanupStats(DB, now), t |-> now,
                again |-> last.kind = "cleanup" /\ last.stats.items_deleted > 0]
    /\ UNCHANGED <<now, tz, fetch_status, archives>>
    /\ UNCHANGED <<idVars, gwVars, exVars>>

\* One call of maybe_run_daily_cleanup. again tells that the call before it,
\* with no time in between, found the cleanup due.
MaybeRunDailyCleanup ==
    LET out == maybe_run_daily_cleanup(DB, now)
    IN  /\ Commit(out.db)
        /\ last' = [kind |-> "maybe", t |-> now, case |-> CooldownCase(DB, now),
                    stamp |-> get_maintenance_state(maintenance, "last_cleanup"),
                    raised |-> out.raised, ran |-> out.ran, stats |-> out.stats,
                    again |-> last.kind = "maybe" /\ last.case \in {"absent", "due"}]
        /\ UNCHANGED <<now, tz, fetch_status, archives>>
        /\ UNCHANGED <<idVars, gwVars, exVars>>

\* Time passes.
Tick ==
    /\ now < MaxTime
    /\ now' = now + 1
    /\ last' = [kind |-> "tick"]
    /\ UNCHANGED <<items, signals, item_tags, tags, maintenance, source_status, sources, archives, fetch_status, tz>>
    /\ UNCHANGED <<idVars, gwVars, exVars>>

Next == Upsert \/ RunCleanup \/ MaybeRunDailyCleanup \/ Tick

Init ==
    /\ InitDb
    /\ sources = init_db_sources(EmptyTable, ConfiguredSources)
    /\ IdleId /\ IdleGw /\ IdleEx
    /\ tz \in LocalOffsets

Spec == Init /\ [][Next]_vars

\* The rows of item_id in table t, each counted with its copies.
CountOf(t, item_id) == RowCount(DeleteRows(t, {r \in Rows(t) : r.item_id # item_id}))

\* C2: there is at most one Item row per item_id, and an upsert for an
\* item_id that is already there adds no row and leaves the row with the
\* title, url, guid and summary of the upsert.
C2_OneItemRowPerId ==
    /\ \A r \in Rows(items) : CountOf(items, r.item_id) = 1
    /\ (last.kind = "upsert" /\ last.before.items # {}) =>
          /\ RowCount(items) = last.before.n_items
          /\ \A r \in Rows(items) :
                r.item_id = last.item.item_id =>
                    /\ r.title = last.item.title
                    /\ r.url = last.item.url
                    /\ r.guid = last.item.guid
                    /\ r.summary = last.item.summary

\* C2 witness: an upsert has just rewritten an existing row that had another
\* title, url, guid and summary.
C2_Witness ==
    /\ last.kind = "upsert"
    /\ \E b \in last.before.items :
          /\ b.title # last.item.title
          /\ b.url # last.item.url
          /\ b.guid # last.item.guid
          /\ b.summary # last.item.summary
    /\ \E r \in Rows(items) : r.item_id = last.item.item_id /\ r.title = last.item.title
    /\ RowCount(items) = 2

\* C3: after any sequence of upserts and cleanups each Item row has exactly
\* one Signal row and every Signal row belongs to an Item row.
C3_OneSignalPerItem ==
    /\ \A r \in Rows(items) : CountOf(signals, r.item_id) = 1
    /\ \A g \in Rows(signals) : \E r \in Rows(items) : r.item_id = g.item_id

\* C3 witness: a cleanup has just deleted an item and its signal and has left
\* another item with its signal.
C3_Witness ==
    /\ last.kind = "cleanup"
    /\ last.stats.items_deleted = 1
    /\ last.stats.signals_deleted = 1
    /\ RowCount(items) = 1
    /\ RowCount(signals) = 1

\* C4: after an upsert the item has exactly one Signal row, with the
\* direction, urgency and mode of that upsert, also when a Signal row with
\* another classification was there before.
C4_LatestSignalWins ==
    last.kind = "upsert" =>
        /\ CountOf(signals, last.item.item_id) = 1
        /\ \A g \in Rows(signals) :
              g.item_id = last.item.item_id =>
                  /\ g.direction = last.item.direction
                  /\ g.urgency = last.item.urgency
                  /\ g.mode = last.item.mode

\* C4 witness: the upsert replaced a Signal row of another direction, urgency
\* and mode.
C4_Witness ==
    /\ last.kind = "upsert"
    /\ \E b \in last.before.signals :
          /\ b.direction # last.item.direction
          /\ b.urgency # last.item.urgency
          /\ b.mode # last.item.mode
    /\ CountOf(signals, last.item.item_id) = 1

\* The ItemTag rows of (item_id, tag), each counted with its copies.
TagCountOf(t, item_id, tag) ==
    RowCount(DeleteRows(t, {r \in Rows(t) : r.item_id # item_id \/ r.tag # tag}))

\* The labels of the three lists of an item dict.
LabelsOf(item) ==
    {item.topics[i] : i \in DOMAIN item.topics}
        \cup {item.asset_classes[i] : i \in DOMAIN item.asset_classes}
        \cup {item.geo_tags[i] : i \in DOMAIN item.geo_tags}

\* C5: there is at most one ItemTag row per (item_id, tag), and after an
\* upsert each label of its three lists has exactly one row for the item,
\* also when the item held the label before or the label is in several lists.
C5_OneRowPerItemTag ==
    /\ \A r \in Rows(item_tags) : TagCountOf(item_tags, r.item_id, r.tag) = 1
    /\ last.kind = "upsert" =>
          \A l \in LabelsOf(last.item) : TagCountOf(item_tags, last.item.item_id, l) = 1

\* C5 witness: the item held a label before the upsert, the upsert emitted it
\* in two of its lists, and there is one row of it.
C5_Witness ==
    /\ last.kind = "upsert"
    /\ \E i \in DOMAIN last.item.topics, j \in DOMAIN last.item.asset_classes :
          /\ last.item.topics[i] = last.item.asset_classes[j]
          /\ \E b \in last.before.item_tags : b.tag = last.item.topics[i]
          /\ TagCountOf(item_tags, last.item.item_id, last.item.topics[i]) = 1

\* C6: an upsert removes no tag assignment: every ItemTag row the item had
\* before the upsert is there after it, also when the upsert does not emit
\* its label.
C6_UpsertKeepsTags ==
    last.kind = "upsert" =>
        \A b \in last.before.item_tags : TagCountOf(item_tags, b.item_id, b.tag) >= 1

\* C6 witness: the item keeps a label that the upsert did not emit.
C6_Witness ==
    /\ last.kind = "upsert"
    /\ \E b \in last.before.item_tags :
          /\ b.tag \notin LabelsOf(last.item)
          /\ TagCountOf(item_tags, b.item_id, b.tag) = 1

\* The items of db whose effective timestamp is older than the UTC time t
\* less the retention period.
OlderThanRetention(db, t) ==
    {r.item_id : r \in {x \in Rows(db.items) :
                            EffectiveTime(x) < t - get_retention_days * TicksPerDay}}

\* C17 as stated: a call of run_cleanup deletes exactly the Item rows whose
\* effective timestamp is older than now less the retention period, with
\* their ItemTag and Signal rows, leaves every other row of the three tables,
\* and returns the numbers of rows it deleted.
C17_AsStated ==
    [][last'.kind = "cleanup" =>
        LET old == OlderThanRetention(DB, now)
        IN  /\ items' = DeleteRows(items, {r \in Rows(items) : r.item_id \in old})
            /\ item_tags' = DeleteRows(item_tags, {r \in Rows(item_tags) : r.item_id \in old})
            /\ signals' = DeleteRows(signals, {r \in Rows(signals) : r.item_id \in old})
            /\ last'.stats = [items_deleted |-> RowCount(items) - RowCount(items'),
                              tags_deleted |-> RowCount(item_tags) - RowCount(item_tags'),
                              signals_deleted |-> RowCount(signals) - RowCount(signals')]]_vars

\* C18: a call of run_cleanup that follows a call of run_cleanup with no time
\* in between, or that finds no item older than its cutoff, changes no Item,
\* ItemTag or Signal row and returns zero for the three counts.
C18_CleanupIsIdempotent ==
    [][(last'.kind = "cleanup" /\ (last.kind = "cleanup" \/ OldItemIds(DB, now) = {})) =>
        /\ items' = items
        /\ item_tags' = item_tags
        /\ signals' = signals
        /\ last'.stats = ZeroStats]_vars

\* C18 witness: a cleanup right after a cleanup that deleted rows, with an
\* item still stored: it returned zeros.
C18_Witness ==
    /\ last.kind = "cleanup"
    /\ last.again
    /\ last.stats = ZeroStats
    /\ RowCount(items) >= 1
    /\ get_maintenance_state(maintenance, "last_cleanup") = <<IsoAware(last.t)>>

\* The UTC time of a stored isoformat() string.
UtcOf(stamp) == IF stamp.offset = <<>> THEN stamp.wall - tz ELSE stamp.wall - stamp.offset[1]

\* C19 as stated: a call of maybe_run_daily_cleanup that finds a last_cleanup
\* recorded less than 24 hours ago does not fail, does not run cleanup,
\* returns zero counts and leaves last_cleanup as it is.
C19_AsStated ==
    (/\ last.kind = "maybe"
     /\ last.stamp # <<>>
     /\ last.t - UtcOf(last.stamp[1]) < Cooldown) =>
        /\ ~last.raised
        /\ ~last.ran
        /\ last.stats = ZeroStats
        /\ get_maintenance_state(maintenance, "last_cleanup") = last.stamp

\* C20 as stated: a call of maybe_run_daily_cleanup that finds last_cleanup
\* absent or older than 24 hours runs cleanup and records the time of the
\* call as last_cleanup, and the call that follows it with no time in between
\* does not run cleanup.
C20_AsStated ==
    /\ (/\ last.kind = "maybe"
        /\ \/ last.stamp = <<>>
           \/ last.t - UtcOf(last.stamp[1]) >= Cooldown) =>
           /\ last.ran
           /\ get_maintenance_state(maintenance, "last_cleanup") = <<IsoAware(last.t)>>
    /\ (last.kind = "maybe" /\ last.again) => ~last.ran

-----------------------------------------------------------------------------
(* SpecIngest: the store under fetch_once *)

\* Python's "a or b" on optional text.
PyOr(a, b) == IF Truthy(a) THEN a ELSE b

\* The bound of the summary slice, summary[:1000].
SUMMARY_MAX == 1000

\* The slice s[:n].
Take(s, n) == SubSeq(s, 1, IF Len(s) < n THEN Len(s) ELSE n)

TxtFedRates == <<"F","e","d"," ","r","a","t","e","s">>

TxtOilRisk == <<"O","i","l"," ","r","i","s","k">>

TxtOilRiskWide == <<"O","i","l"," "," ","r","i","s","k">>

TxtYields == <<"Y","i","e","l","d","s">>

TxtBlank == <<" ", "\t">>

TxtU1 == <<"u","1">>

TxtU2 == <<"u","2">>

TxtM == <<"m">>

\* The enabled rows of the sources table, in the order of the SELECT.
EnabledSources ==
    << [source_id |-> TxtS, rss_url |-> <<"f","s">>],
       [source_id |-> TxtR, rss_url |-> <<"f","r">>] >>

\* Feed entries as the parser hands them over: title, link, id, guid, summary
\* (None when the attribute is missing) and the parsed publication time.
EntryFed ==
    [title |-> TxtFedRates, link |-> TxtU1, id |-> None, guid |-> None, summary |-> TxtM,
     published |-> NullTime]

EntryOil ==
    [title |-> TxtOilRisk, link |-> TxtU2, id |-> TxtG, guid |-> None, summary |-> None,
     published |-> <<0>>]

EntryOilWide ==
    [title |-> TxtOilRiskWide, link |-> TxtU2, id |-> None, guid |-> None, summary |-> None,
     published |-> NullTime]

EntryYields ==
    [title |-> TxtYields, link |-> TxtU1, id |-> None, guid |-> TxtG, summary |-> TxtM,
     published |-> NullTime]

EntryBlank ==
    [title |-> TxtBlank, link |-> TxtU1, id |-> None, guid |-> None, summary |-> None,
     published |-> NullTime]

EntryNoLink ==
    [title |-> TxtFedRates, link |-> None, id |-> None, guid |-> None, summary |-> TxtM,
     published |-> NullTime]

\* What fetch_feed_with_timeout returns for one source: (d, http_status,
\* fetch_error), with the bozo flag and the entries of d.
FetchOutcomes ==
    { [error |-> <<"HTTP 404: Not Found (feed may have moved)">>, http_status |-> <<404>>,
       bozo |-> FALSE, entries |-> <<>>],
      [error |-> None, http_status |-> <<200>>, bozo |-> FALSE,
       entries |-> <<EntryFed, EntryBlank, EntryOil>>],
      [error |-> None, http_status |-> <<200>>, bozo |-> TRUE,
       entries |-> <<EntryYields, EntryNoLink, EntryOilWide>>] }

\* The feed payloads of one run: the outcome of the fetch of each source.
Payloads == [1..Len(EnabledSources) -> FetchOutcomes]

\* The item dict fetch_once builds for entry e of source source_id at time t.
BuildItem(source_id, e, t) ==
    LET title == normalize_ws(PyOr(e.title, <<>>))
        url == PyOr(e.link, <<>>)
        guid == PyOr(e.id, e.guid)
    IN  [item_id |-> stable_item_id(source_id, title, url, guid),
         source_id |-> source_id,
         published_at |-> e.published,
         fetched_at |-> t,
         title |-> title,
         url |-> url,
         guid |-> guid,
         summary |-> PyOr(Take(normalize_ws(PyOr(e.summary, <<>>)), SUMMARY_MAX), None),
         topics |-> tag_topics(title),
         asset_classes |-> tag_asset_class(title),
         geo_tags |-> tag_geo(title),
         direction |-> classify_direction(title),
         urgency |-> classify_urgency(title),
         mode |-> classify_mode(title)]

\* The entries of the feeds of the model.
FeedEntries == UNION {{o.entries[i] : i \in DOMAIN o.entries} : o \in FetchOutcomes}

\* BuildItem at time 0 for every source and entry of the model, computed once.
BuiltItems ==
    { [source_id |-> EnabledSources[i].source_id, entry |-> e,
       item |-> BuildItem(EnabledSources[i].source_id, e, 0)] :
        <<i, e>> \in (DOMAIN EnabledSources) \X FeedEntries }

\* BuildItem(source_id, e, t), read from BuiltItems.
ItemFor(source_id, e, t) ==
    [(CHOOSE b \in BuiltItems : b.source_id = source_id /\ b.entry = e).item
        EXCEPT !.fetched_at = t]

\* ingest.update_source_status: INSERT OR REPLACE INTO source_status
update_source_status(t, source_id, fetch_utc, ok_utc, error, http_status, seen, added) ==
    PlainInsert(DeleteRows(t, {r \in Rows(t) : r.source_id = source_id}),
                [source_id |-> source_id, last_fetch_utc |-> fetch_utc, last_ok_utc |-> ok_utc,
                 last_error |-> error, last_http_status |-> http_status,
                 items_seen_last_fetch |-> seen, items_added_last_fetch |-> added])

\* A mutant of SkipEntry: only the title is looked at.
SkipEntry_TitleOnly(title, url) == ~Truthy(title)

\* `if not title or not url: continue`, on the normalized title and the link.
SkipEntry(title, url) == ~Truthy(title) \/ ~Truthy(url)

\* The loop of fetch_once over the entries of one feed. acc holds the
\* database and the counters source_seen and source_added.
RECURSIVE EntryLoop(_, _, _, _)
EntryLoop(acc, source_id, entries, t) ==
    IF entries = <<>> THEN acc
    ELSE LET e == Head(entries)
             seen == acc.seen + 1
             title == normalize_ws(PyOr(e.title, <<>>))
             url == PyOr(e.link, <<>>)
         IN  IF SkipEntry(title, url)
             THEN EntryLoop([acc EXCEPT !.seen = seen], source_id, Tail(entries), t)
             ELSE LET item == ItemFor(source_id, e, t)
                      exists == \E r \in Rows(acc.db.items) : r.item_id = item.item_id
                  IN  EntryLoop([db |-> upsert_item_and_annotations(acc.db, item),
                                 seen |-> seen,
                                 added |-> IF exists THEN acc.added ELSE acc.added + 1],
                                source_id, Tail(entries), t)

\* A failure of the persistence layer during a run: the database statement
\* that follows the entry number `after` of the feed of source number
\* `source` raises (an upsert, update_source_status or the commit). NoFault
\* is a run in which no statement raises.
NoFault == [source |-> 0, after |-> 0]

\* The longest feed of the model.
MaxEntries == 3

Faults == {NoFault} \cup [source : DOMAIN EnabledSources, after : 0..MaxEntries]

\* The fault can happen in a run over payload: the source of the fault has
\* that many entries (none when its fetch ended in an error).
FaultFits(fault, payload) ==
    IF fault = NoFault THEN TRUE ELSE fault.after <= Len(payload[fault.source].entries)

\* str of the exception the except branch of fetch_once catches.
FaultText == <<"OperationalError: database is locked">>

\* A mutant of SourceStep: a fetch error ends the run.
SourceStep_AbortOnError(run, s, o, f, t) ==
    IF Truthy(o.error)
    THEN [run EXCEPT !.db.source_status =
              update_source_status(@, s.source_id, t, NullTime, o.error, o.http_status, 0, 0),
                     !.aborted = TRUE]
    ELSE LET done == EntryLoop([db |-> run.db, seen |-> 0, added |-> 0],
                               s.source_id, o.entries, t)
             warning == IF o.bozo THEN <<"RSS parse warning (bozo flag set)">> ELSE None
         IN  [run EXCEPT !.db = [done.db EXCEPT !.source_status =
                                    update_source_status(@, s.source_id, t, <<t>>, warning,
                                                         o.http_status, done.seen, done.added)],
                         !.added = run.added + done.added]

\* A mutant of SourceStep: the writes made before the failing statement are
\* not rolled back.
SourceStep_KeepPartial(run, s, o, f, t) ==
    IF f # <<>>
    THEN LET done == EntryLoop([db |-> run.db, seen |-> 0, added |-> 0],
                               s.source_id, SubSeq(o.entries, 1, f[1]), t)
         IN  [run EXCEPT !.db = done.db,
                         !.added = run.added + done.added,
                         !.err = FaultText,
                         !.aborted = TRUE]
    ELSE IF Truthy(o.error)
    THEN [run EXCEPT !.db.source_status =
              update_source_status(@, s.source_id, t, NullTime, o.error, o.http_status, 0, 0)]
    ELSE LET done == EntryLoop([db |-> run.db, seen |-> 0, added |-> 0],
                               s.source_id, o.entries, t)
             warning == IF o.bozo THEN <<"RSS parse warning (bozo flag set)">> ELSE None
         IN  [run EXCEPT !.db = [done.db EXCEPT !.source_status =
                                    update_source_status(@, s.source_id, t, <<t>>, warning,
                                                         o.http_status, done.seen, done.added)],
                         !.added = run.added + done.added]

\* A mutant of SourceStep: a feed with the bozo flag is taken for a failed
\* fetch, none of its entries is looked at.
SourceStep_BozoIsError(run, s, o, f, t) ==
    IF f # <<>>
    THEN LET done == EntryLoop([db |-> run.db, seen |-> 0, added |-> 0],
                               s.source_id, SubSeq(o.entries, 1, f[1]), t)
         IN  [run EXCEPT !.added = run.added + done.added,
                         !.err = FaultText,
                         !.aborted = TRUE]
    ELSE IF Truthy(o.error) \/ o.bozo
    THEN [run EXCEPT !.db.source_status =
              update_source_status(@, s.source_id, t, NullTime,
                                   IF Truthy(o.error) THEN o.error
                                   ELSE <<"RSS parse warning (bozo flag set)">>,
                                   o.http_status, 0, 0)]
    ELSE LET done == EntryLoop([db |-> run.db, seen |-> 0, added |-> 0],
                               s.source_id, o.entries, t)
         IN  [run EXCEPT !.db = [done.db EXCEPT !.source_status =
                                    update_source_status(@, s.source_id, t, <<t>>, None,
                                                         o.http_status, done.seen, done.added)],
                         !.added = run.added + done.added]

\* The body of the loop of fetch_once over the sources, for source s with
\* fetch outcome o. run holds the committed database, the counter added, err
\* and whether the loop was left by an exception. f is <<>>, or <<k>> when the
\* statement after entry k raises: the except branch then rolls back to the
\* last commit, sets err and the loop is over, while added keeps what the
\* entries before the failure added to it.
SourceStep(run, s, o, f, t) ==
    IF f # <<>>
    THEN LET done == EntryLoop([db |-> run.db, seen |-> 0, added |-> 0],
                               s.source_id, SubSeq(o.entries, 1, f[1]), t)
         IN  [run EXCEPT !.added = run.added + done.added,
                         !.err = FaultText,
                         !.aborted = TRUE]
    ELSE IF Truthy(o.error)
    THEN [run EXCEPT !.db.source_status =
              update_source_status(@, s.source_id, t, NullTime, o.error, o.http_status, 0, 0)]
    ELSE LET done == EntryLoop([db |-> run.db, seen |-> 0, added |-> 0],
                               s.source_id, o.entries, t)
             warning == IF o.bozo THEN <<"RSS parse warning (bozo flag set)">> ELSE None
         IN  [run EXCEPT !.db = [done.db EXCEPT !.source_status =
                                    update_source_status(@, s.source_id, t, <<t>>, warning,
                                                         o.http_status, done.seen, done.added)],
                         !.added = run.added + done.added]

\* The loop of fetch_once over the sources from index i on. The sources whose
\* index is in absent are not among the enabled rows.
RECURSIVE SourceLoop(_, _, _, _, _, _)
SourceLoop(run, i, payload, fault, absent, t) ==
    IF i > Len(EnabledSources) \/ run.aborted THEN run
    ELSE IF i \in absent THEN SourceLoop(run, i + 1, payload, fault, absent, t)
    ELSE SourceLoop(SourceStep(run, EnabledSources[i], payload[i],
                               IF fault.source = i THEN <<fault.after>> ELSE <<>>, t),
                    i + 1, payload, fault, absent, t)

\* The sources that SELECT * FROM sources WHERE enabled=1 does not return.
NotSelected(t) ==
    {i \in DOMAIN EnabledSources :
        ~\E r \in Rows(t) : r.source_id = EnabledSources[i].source_id /\ r.enabled = 1}

\* fetch_once with the sources of absent missing from the enabled rows.
fetch_once_without(db, payload, fault, absent, t) ==
    LET run == SourceLoop([db |-> db, added |-> 0, err |-> None, aborted |-> FALSE],
                          1, payload, fault, absent, t)
    IN  [db |-> run.db,
         raised |-> FALSE,
         status |-> [last_run_utc |-> <<t>>, last_error |-> run.err, items_added |-> run.added]]

\* A mutant of fetch_once: no except branch, the exception of a failing
\* statement leaves fetch_once and nothing is published.
fetch_once_NoExcept(db, payload, fault, t) ==
    LET out == fetch_once_without(db, payload, fault, {}, t)
    IN  IF fault = NoFault THEN out ELSE [out EXCEPT !.raised = TRUE]

\* ingest.fetch_once over payload at time t, with the persistence failure
\* fault: the database it leaves, whether an exception leaves it, and the
\* status it publishes.
fetch_once(db, payload, fault, t) ==
    fetch_once_without(db, payload, fault, NotSelected(db.sources), t)

\* One run of fetch_once, which reads the clock as it starts and takes one
\* tick. repeat tells that the run before it, with nothing but time in
\* between, had the same payload, neither of the two with a persistence
\* failure.
FetchOnce ==
    \E payload \in Payloads, fault \in Faults :
        LET out == fetch_once(DB, payload, fault, now)
        IN  /\ now < MaxFetchTime
            /\ FaultFits(fault, payload)
            /\ Commit(out.db)
            /\ fetch_status' = IF out.raised THEN fetch_status ELSE out.status
            /\ last' = [kind |-> "fetch", payload |-> payload, fault |-> fault,
                        raised |-> out.raised, t |-> now,
                        repeat |-> /\ last.kind = "fetch"
                                   /\ last.payload = payload
                                   /\ last.fault = NoFault
                                   /\ fault = NoFault,
                        n_items |-> RowCount(items)]
            /\ now' = now + 1
            /\ UNCHANGED <<tz, archives>>
            /\ UNCHANGED <<idVars, gwVars, exVars>>

\* Time passes between two runs.
TickIngest ==
    /\ now < MaxFetchTime
    /\ now' = now + 1
    /\ UNCHANGED <<items, signals, item_tags, tags, maintenance, source_status, sources, archives, fetch_status, last, tz>>
    /\ UNCHANGED <<idVars, gwVars, exVars>>

NextIngest == FetchOnce \/ TickIngest

\* The store after init_db with the sources of the feeds.
InitIngest ==
    /\ InitDb
    /\ sources = init_db_sources(EmptyTable, EnabledSources)
    /\ IdleId /\ IdleGw /\ IdleEx
    /\ tz \in LocalOffsets

SpecIngest == InitIngest /\ [][NextIngest]_vars

\* C1: a run of fetch_once over the same feed payloads as the run before it,
\* with no other write in between, leaves the number of Item rows as the
\* run before it left it.
C1_RefetchKeepsCount ==
    (last.kind = "fetch" /\ last.repeat) => RowCount(items) = last.n_items

\* C1 witness: the second of two runs over the same payloads, both sources
\* fetched with entries, items in the store and none added by the second run.
C1_Witness ==
    /\ last.kind = "fetch"
    /\ last.repeat
    /\ \A i \in DOMAIN last.payload : last.payload[i].entries # <<>>
    /\ RowCount(items) >= 2
    /\ RowCount(items) = last.n_items
    /\ fetch_status.items_added = 0

\* The entries of outcome o that fetch_once does not skip.
ValidEntries(o) ==
    {e \in {o.entries[k] : k \in DOMAIN o.entries} :
        Truthy(normalize_ws(PyOr(e.title, <<>>))) /\ Truthy(PyOr(e.link, <<>>))}

\* C7 as stated: two entries with the same non-empty guid from two sources get
\* different identifiers, so that after a run that ingested both there are
\* two Item rows with that guid, one owned by each source.
C7_AsStated ==
    last.kind = "fetch" =>
        \A i, j \in DOMAIN EnabledSources :
            \A e1 \in ValidEntries(last.payload[i]), e2 \in ValidEntries(last.payload[j]) :
                LET si == EnabledSources[i].source_id
                    sj == EnabledSources[j].source_id
                    g == PyOr(e1.id, e1.guid)
                IN  (/\ i # j
                     /\ last.fault = NoFault
                     /\ ~Truthy(last.payload[i].error)
                     /\ ~Truthy(last.payload[j].error)
                     /\ Truthy(g)
                     /\ g = PyOr(e2.id, e2.guid)) =>
                        /\ ItemFor(si, e1, now).item_id # ItemFor(sj, e2, now).item_id
                        /\ \E r \in Rows(items) : r.source_id = si /\ r.guid = g
                        /\ \E r \in Rows(items) : r.source_id = sj /\ r.guid = g

\* db without the source_status rows of source_id.
WithoutStatusOf(db, source_id) ==
    [db EXCEPT !.source_status = DeleteRows(@, {r \in Rows(@) : r.source_id = source_id})]

\* The run reaches source number i: no statement raises before.
Reached(fault, i) == fault = NoFault \/ fault.source >= i

\* The source_status rows of source number i that hold the fetch time t, the
\* error and the HTTP status of outcome o, each counted with its copies.
ErrorRowsOf(t, i, o, at) ==
    RowCount(DeleteRows(t, {r \in Rows(t) :
        ~ (/\ r.source_id = EnabledSources[i].source_id
           /\ r.last_fetch_utc = at
           /\ r.last_error = o.error
           /\ r.last_http_status = o.http_status)}))

\* C13: in every run of fetch_once, for every source whose fetch ends in an
\* error (and whose status write does not itself fail), the run leaves one
\* SourceStatus row with that error and HTTP status, also when a later
\* statement raises and is rolled back, and it leaves the rest of the
\* database and the published status exactly as the same run does with that
\* source not among the enabled ones.
C13_FetchErrorIsIsolated ==
    [][(last'.kind = "fetch" /\ last'.t = now) =>
        \A i \in DOMAIN EnabledSources :
            (/\ Truthy(last'.payload[i].error)
             /\ Reached(last'.fault, i)
             /\ last'.fault.source # i) =>
                LET sid == EnabledSources[i].source_id
                    other == fetch_once_without(DB, last'.payload, last'.fault, {i}, now)
                IN  /\ ErrorRowsOf(source_status', i, last'.payload[i], now) = 1
                    /\ RowCount(WithoutStatusOf(DB', sid).source_status) + 1
                          = RowCount(source_status')
                    /\ WithoutStatusOf(DB', sid) = WithoutStatusOf(other.db, sid)
                    /\ fetch_status' = other.status]_vars

\* C13 witness: the fetch of the first source ended in the 404 error, its
\* SourceStatus row holds it, and the entries of the second source are stored.
C13_Witness ==
    /\ last.kind = "fetch"
    /\ last.fault = NoFault
    /\ last.payload[1].http_status = <<404>>
    /\ ~Truthy(last.payload[2].error)
    /\ ErrorRowsOf(source_status, 1, last.payload[1], last.t) = 1
    /\ \E r \in Rows(items) : r.source_id = EnabledSources[2].source_id /\ r.fetched_at = last.t
    /\ \E r \in Rows(source_status) :
          /\ r.source_id = EnabledSources[2].source_id
          /\ r.last_ok_utc = <<last.t>>
          /\ r.items_added_last_fetch = 2

\* C14 as stated: when a statement raises while the run processes one source,
\* the writes of that source are rolled back, the failure is the run-level
\* error, and the run goes on to the next enabled source.
C14_AsStated ==
    (last.kind = "fetch" /\ last.fault # NoFault) =>
        /\ fetch_status.last_error = FaultText
        /\ \A r \in Rows(source_status) :
              r.source_id = EnabledSources[last.fault.source].source_id =>
                  r.last_fetch_utc # last.t
        /\ \A r \in Rows(items) :
              r.source_id = EnabledSources[last.fault.source].source_id =>
                  r.fetched_at # last.t
        /\ \A j \in DOMAIN EnabledSources :
              j > last.fault.source =>
                  \E r \in Rows(source_status) :
                      /\ r.source_id = EnabledSources[j].source_id
                      /\ r.last_fetch_utc = last.t

\* C15: no run of fetch_once raises to its caller; every run, failed or not,
\* publishes its status (last_run_utc, last_error, items_added); a statement
\* that raised is in the run status, and the fetch error of a source the run
\* reached is in its SourceStatus row.
C15_NeverRaisesAlwaysPublishes ==
    last.kind = "fetch" =>
        /\ ~last.raised
        /\ fetch_status.last_run_utc = <<last.t>>
        /\ fetch_status.items_added \in Nat
        /\ last.fault # NoFault => fetch_status.last_error = FaultText
        /\ \A i \in DOMAIN EnabledSources :
              (/\ Truthy(last.payload[i].error)
               /\ Reached(last.fault, i)
               /\ last.fault.source # i) =>
                  ErrorRowsOf(source_status, i, last.payload[i], last.t) = 1

\* C15 witness: a run in which one fetch ended in an error and a statement of
\* the next source raised after an entry was upserted: it returned and
\* published both.
C15_Witness ==
    /\ last.kind = "fetch"
    /\ ~last.raised
    /\ Truthy(last.payload[1].error)
    /\ last.fault = [source |-> 2, after |-> 1]
    /\ fetch_status = [last_run_utc |-> <<last.t>>, last_error |-> FaultText, items_added |-> 1]
    /\ ErrorRowsOf(source_status, 1, last.payload[1], last.t) = 1

\* The errors a run encounters, in order: the fetch error of each source it
\* reaches, and the exception of the statement that raises.
RECURSIVE RunErrors(_, _, _)
RunErrors(payload, fault, i) ==
    IF i > Len(EnabledSources) THEN <<>>
    ELSE IF fault.source = i THEN <<FaultText>>
    ELSE IF Truthy(payload[i].error) THEN <<payload[i].error>> \o RunErrors(payload, fault, i + 1)
    ELSE RunErrors(payload, fault, i + 1)

\* C16 as stated: the last_error of the published status is the last error
\* the run encountered when it encountered one, and is empty only when it
\* encountered none.
C16_AsStated ==
    last.kind = "fetch" =>
        LET errors == RunErrors(last.payload, last.fault, 1)
        IN  IF errors = <<>> THEN fetch_status.last_error = None
            ELSE fetch_status.last_error = errors[Len(errors)]

-----------------------------------------------------------------------------
(* SpecFetch: fetch_feed_with_timeout, one request after the other *)

\* The feeds the parser returns: the bozo flag and the entries.
ParsedFeeds ==
    {[bozo |-> o.bozo, entries |-> o.entries] : o \in {x \in FetchOutcomes : ~Truthy(x.error)}}

\* The status codes urlopen raises HTTPError for, among those of the model.
HttpErrorCodes == {304, 400, 401, 403, 404, 429, 500, 503, 599}

\* e.reason of the HTTPError with status code c.
ReasonOf(c) ==
    CASE c = 304 -> "Not Modified"
      [] c = 400 -> "Bad Request"
      [] c = 401 -> "Unauthorized"
      [] c = 403 -> "Forbidden"
      [] c = 404 -> "Not Found"
      [] c = 429 -> "Too Many Requests"
      [] c = 500 -> "Internal Server Error"
      [] c = 503 -> "Service Unavailable"
      [] OTHER -> "Unknown"

\* How the try block of one attempt ends: exc is "none" when urlopen, read and
\* parse went through, else the class of the exception raised. network tells
\* whether the failure is one of the network (refused connection, DNS
\* failure, time-out, reset) and not of the answer or of its parsing.
\* urlopen wraps the failures of connecting and sending in URLError; a
\* time-out or a reset while it waits for the answer or reads the body
\* reaches the caller as TimeoutError or ConnectionResetError, which are not
\* URLError; a malformed url or a failure of the parser is a ValueError or
\* another Exception.
Answered == {[exc |-> "none", code |-> 200, reason |-> "OK", network |-> FALSE, feed |-> <<f>>] :
                f \in ParsedFeeds}

HTTPErrors == {[exc |-> "HTTPError", code |-> c, reason |-> ReasonOf(c), network |-> FALSE,
                feed |-> <<>>] : c \in HttpErrorCodes}

URLErrors == {[exc |-> "URLError", code |-> 0, reason |-> r, network |-> TRUE, feed |-> <<>>] :
                r \in {"[Errno 111] Connection refused", "[Errno -2] Name or service not known"}}

OtherExceptions ==
    { [exc |-> "TimeoutError", code |-> 0, reason |-> "timed out", network |-> TRUE,
       feed |-> <<>>],
      [exc |-> "ConnectionResetError", code |-> 0, reason |-> "[Errno 104] Connection reset by peer",
       network |-> TRUE, feed |-> <<>>],
      [exc |-> "ValueError", code |-> 0, reason |-> "unknown url type", network |-> FALSE,
       feed |-> <<>>],
      [exc |-> "SAXParseException", code |-> 0, reason |-> "not well-formed", network |-> FALSE,
       feed |-> <<>>] }

\* The tuple (parsed_feed, http_status, error_message) the call returns, in
\* the shape of FetchOutcomes: parsed_feed None has no entries.
Returns(feed, http_status, error) ==
    [error |-> error, http_status |-> http_status,
     bozo |-> IF feed = <<>> THEN FALSE ELSE feed[1].bozo,
     entries |-> IF feed = <<>> THEN <<>> ELSE feed[1].entries]

\* The loop goes on to its next round.
Continue == [error |-> <<"<continue>">>, http_status |-> NoStatus, bozo |-> FALSE, entries |-> <<>>]

\* f"HTTP {http_status}: {e.reason}"
HttpErrorText(a) == <<"HTTP ", ToString(a.code), ": ", a.reason>>

\* A mutant of AttemptResult: every HTTPError of the first attempt is retried.
AttemptResult_RetryAll(n, a) ==
    IF a.exc = "none" THEN Returns(a.feed, <<a.code>>, None)
    ELSE IF n = 0 THEN Continue
    ELSE Returns(<<>>, IF a.exc = "HTTPError" THEN <<a.code>> ELSE NoStatus, HttpErrorText(a))

\* One round of the loop of fetch_feed_with_timeout, with attempt = n and the
\* try block ending as a: what the round returns, or Continue.
AttemptResult(n, a) ==
    IF a.exc = "none" THEN Returns(a.feed, <<a.code>>, None)
    ELSE IF a.exc = "HTTPError"
    THEN IF 400 <= a.code /\ a.code < 500
         THEN IF a.code = 401
              THEN Returns(<<>>, <<a.code>>, <<"HTTP 401: Unauthorized (requires authentication)">>)
              ELSE IF a.code = 403
              THEN Returns(<<>>, <<a.code>>, <<"HTTP 403: Forbidden">>)
              ELSE IF a.code = 404
              THEN Returns(<<>>, <<a.code>>, <<"HTTP 404: Not Found (feed may have moved)">>)
              ELSE IF a.code = 429
              THEN Returns(<<>>, <<a.code>>, <<"HTTP 429: Rate Limited (too many requests)">>)
              ELSE Returns(<<>>, <<a.code>>, HttpErrorText(a))
         ELSE IF n = 0 /\ 500 <= a.code /\ a.code < 600
              THEN Continue
              ELSE Returns(<<>>, <<a.code>>, HttpErrorText(a))
    ELSE IF a.exc = "URLError"
    THEN IF n = 0 THEN Continue
         ELSE Returns(<<>>, NoStatus, <<"Network error: ", a.reason>>)
    ELSE Returns(<<>>, NoStatus, <<a.exc, ": ", a.reason>>)

\* The number of rounds of the loop: range(2).
MAX_ATTEMPTS == 2

\* One round of the loop, the endpoint answering a: the round returns, or it
\* sleeps and the loop goes on; a loop that runs out returns
\* "Failed after retry".
Request(a) ==
    /\ returned = <<>>
    /\ rss_url # <<>>
    /\ attempt < MAX_ATTEMPTS
    /\ requests' = Append(requests, a)
    /\ LET r == AttemptResult(attempt, a)
       IN  IF r # Continue
           THEN /\ returned' = <<r>>
                /\ attempt' = attempt
           ELSE /\ attempt' = attempt + 1
                /\ returned' = IF attempt + 1 < MAX_ATTEMPTS THEN <<>>
                               ELSE <<Returns(<<>>, NoStatus, <<"Failed after retry">>)>>
    /\ UNCHANGED rss_url
    /\ UNCHANGED <<dbVars, idVars, exVars>>

RequestAnswered == \E a \in Answered : Request(a)

RequestHTTPError == \E a \in HTTPErrors : Request(a)

RequestURLError == \E a \in URLErrors : Request(a)

RequestRaises == \E a \in OtherExceptions : Request(a)

\* fetch_once calls fetch_feed_with_timeout for the next source.
Call ==
    /\ returned # <<>>
    /\ \E i \in DOMAIN EnabledSources : rss_url' = EnabledSources[i].rss_url
    /\ attempt' = 0
    /\ requests' = <<>>
    /\ returned' = <<>>
    /\ UNCHANGED <<dbVars, idVars, exVars>>

NextFetch == RequestAnswered \/ RequestHTTPError \/ RequestURLError \/ RequestRaises \/ Call

\* A call of fetch_feed_with_timeout that has made no request yet.
InitFetch ==
    /\ IdleDb
    /\ IdleId
    /\ IdleEx
    /\ rss_url \in {EnabledSources[i].rss_url : i \in DOMAIN EnabledSources}
    /\ attempt = 0
    /\ requests = <<>>
    /\ returned = <<>>

SpecFetch == InitFetch /\ [][NextFetch]_vars

\* The attempt ended in an HTTP 400-499 response.
IsClientError(a) == a.exc = "HTTPError" /\ 400 <= a.code /\ a.code < 500

\* The attempt ended in an HTTP 500-599 response.
IsServerError(a) == a.exc = "HTTPError" /\ 500 <= a.code /\ a.code < 600

\* The attempt ended in a failure that is neither an HTTP response nor one of
\* the network.
IsUnexpected(a) == a.exc \notin {"none", "HTTPError"} /\ ~a.network

\* C11: an attempt that ends in an HTTP 400-499 response or in an unexpected
\* non-network failure is the last of its call: the call has returned, with
\* no entries and a non-empty error, and with the status code in the 4xx
\* case; a call whose first answer is 404 has made exactly one request.
C11_ClientErrorIsTerminal ==
    /\ \A i \in DOMAIN requests :
          (IsClientError(requests[i]) \/ IsUnexpected(requests[i])) =>
              /\ i = Len(requests)
              /\ returned # <<>>
              /\ returned[1].entries = <<>>
              /\ Truthy(returned[1].error)
              /\ IsClientError(requests[i]) => returned[1].http_status = <<requests[i].code>>
              /\ IsUnexpected(requests[i]) => returned[1].http_status = NoStatus
    /\ (requests # <<>> /\ requests[1].code = 404) => (Len(requests) = 1 /\ returned # <<>>)

\* C11 witness: a call that has returned the 404 error after one request.
C11_Witness ==
    /\ Len(requests) = 1
    /\ requests[1].code = 404
    /\ returned = <<Returns(<<>>, <<404>>, <<"HTTP 404: Not Found (feed may have moved)">>)>>

\* A 4xx answer to the second attempt ends the call as well.
C11_WitnessSecondAttempt ==
    /\ Len(requests) = 2
    /\ IsServerError(requests[1])
    /\ requests[2].code = 400
    /\ returned # <<>>
    /\ returned[1].http_status = <<400>>

\* C12 as stated: a first attempt that fails with an HTTP 500-599 response or
\* with a network-level error is followed by exactly one more attempt; an
\* endpoint that keeps answering 503 is requested exactly twice and the call
\* returns the error; a second attempt that succeeds returns the parsed
\* entries and no error; no call makes more than two attempts.
C12_AsStated ==
    /\ Len(requests) <= 2
    /\ (requests # <<>> /\ (IsServerError(requests[1]) \/ requests[1].network)) =>
          \/ Len(requests) = 1 /\ returned = <<>>
          \/ Len(requests) = 2 /\ returned # <<>>
    /\ (returned # <<>> /\ \A i \in DOMAIN requests : requests[i].code = 503) =>
          /\ Len(requests) = 2
          /\ returned[1] = Returns(<<>>, <<503>>, HttpErrorText(requests[2]))
    /\ (Len(requests) = 2 /\ requests[2].exc = "none") =>
          returned = <<Returns(requests[2].feed, <<200>>, None)>>


-----------------------------------------------------------------------------
(* SpecRules: the classifiers of rules.py on titles put together from words  *)

\* The largest number of words of a title.
MaxTitleWords == 3

\* The words the titles are made of, in the spelling the titles have: every
\* cue list and every pair of MODE_RULES is met by one of them, some by two.
Vocabulary ==
    { <<"W","h","y">>, <<"F","e","d">>, <<"r","i","s","k">>, <<"s","u","r","g","e">>,
      <<"C","r","i","s","i","s">>, <<"R","a","l","l","y">>, <<"a","s">>, <<"f","a","l","l">>,
      <<"b","u","y">>, <<"p","r","e","s","s","u","r","e">> }

\* The number of words of a title of SpecRules.
NWords(s) == IF s = <<>> THEN 0 ELSE 1 + Cardinality({k \in 1..Len(s) : s[k] = " "})

\* Another word at the end of the title; what was returned for the shorter
\* title is forgotten.
Compose ==
    /\ NWords(cl_title) < MaxTitleWords
    /\ \E w \in Vocabulary :
         cl_title' = (IF cl_title = <<>> THEN w ELSE cl_title \o <<" ">> \o w)
    /\ cl_direction' = <<>>
    /\ cl_urgency' = <<>>
    /\ cl_mode' = <<>>
    /\ UNCHANGED <<dbVars, idVars, gwVars, lpVars, ccVars, cfVars>>

\* One call of classify_direction.
ClassifyDirection ==
    /\ cl_direction' = <<classify_direction(cl_title)>>
    /\ UNCHANGED <<cl_title, cl_urgency, cl_mode>>
    /\ UNCHANGED <<dbVars, idVars, gwVars, lpVars, ccVars, cfVars>>

\* One call of classify_urgency.
ClassifyUrgency ==
    /\ cl_urgency' = <<classify_urgency(cl_title)>>
    /\ UNCHANGED <<cl_title, cl_direction, cl_mode>>
    /\ UNCHANGED <<dbVars, idVars, gwVars, lpVars, ccVars, cfVars>>

\* One call of classify_mode.
ClassifyMode ==
    /\ cl_mode' = <<classify_mode(cl_title)>>
    /\ UNCHANGED <<cl_title, cl_direction, cl_urgency>>
    /\ UNCHANGED <<dbVars, idVars, gwVars, lpVars, ccVars, cfVars>>

NextRules == Compose \/ ClassifyDirection \/ ClassifyUrgency \/ ClassifyMode

\* The empty title with nothing classified, beside an untouched store.
InitRules == IdleRl /\ IdleDb /\ IdleId /\ IdleGw /\ IdleLp /\ IdleCc /\ IdleCf

SpecRules == InitRules /\ [][NextRules]_vars

\* C28: classify_direction returns "mixed" when the title matches a negative
\* and a positive cue, "neg" when it matches negative cues only, "pos" when it
\* matches positive cues only, "neutral" when it matches neither, and nothing
\* else.
C28_DirectionTable ==
    cl_direction # <<>> =>
        LET d == cl_direction[1]
            neg == regex_any(NEG_CUES, cl_title)
            pos == regex_any(POS_CUES, cl_title)
        IN  /\ d \in {"mixed", "neg", "pos", "neutral"}
            /\ (neg /\ pos) => d = "mixed"
            /\ (neg /\ ~pos) => d = "neg"
            /\ (pos /\ ~neg) => d = "pos"
            /\ (~neg /\ ~pos) => d = "neutral"

\* A title with a negative and a positive cue has been classified mixed.
C28_Witness ==
    /\ cl_direction = <<"mixed">>
    /\ regex_any(NEG_CUES, cl_title)
    /\ regex_any(POS_CUES, cl_title)

\* C30: classify_urgency returns "high" whenever a high-urgency cue matches,
\* with or without a medium cue, "med" when no high cue and some medium cue
\* matches, and "low" otherwise.
C30_UrgencyCascade ==
    cl_urgency # <<>> =>
        LET u == cl_urgency[1]
            high == regex_any(URG_HIGH, cl_title)
            med == regex_any(URG_MED, cl_title)
        IN  /\ high => u = "high"
            /\ (~high /\ med) => u = "med"
            /\ (~high /\ ~med) => u = "low"

\* A title with a high cue and a medium cue has been classified high.
C30_Witness ==
    /\ cl_urgency = <<"high">>
    /\ regex_any(URG_HIGH, cl_title)
    /\ regex_any(URG_MED, cl_title)

\* The order in which the claim has the labels of MODE_RULES scanned.
ModeOrder == <<"explain", "warn", "opportunity", "posthoc", "policy">>

\* Some pattern of the pair of MODE_RULES with this label is found in the text.
ModeMatches(label, text) ==
    \E i \in 1..Len(MODE_RULES) :
        MODE_RULES[i].label = label /\ ModeMatch(MODE_RULES[i], text)

\* C29: MODE_RULES holds the pairs explain, warn, opportunity, posthoc, policy
\* in this order; classify_mode returns the label of the first of them with a
\* matching pattern and "unknown" when none matches, so a title that matches
\* an explain pattern and a policy pattern is classified explain.
C29_FirstMatchingModeWins ==
    /\ [i \in 1..Len(MODE_RULES) |-> MODE_RULES[i].label] = ModeOrder
    /\ cl_mode # <<>> =>
        LET hits == {i \in 1..Len(ModeOrder) : ModeMatches(ModeOrder[i], cl_title)}
        IN  /\ hits = {} => cl_mode[1] = "unknown"
            /\ hits # {} =>
                 \E i \in hits : /\ \A j \in hits : i <= j
                                 /\ cl_mode[1] = ModeOrder[i]
            /\ (ModeMatches("explain", cl_title) /\ ModeMatches("policy", cl_title))
                 => cl_mode[1] = "explain"

\* A title with an explain pattern and a policy pattern has been classified.
C29_Witness ==
    /\ cl_mode = <<"explain">>
    /\ ModeMatches("explain", cl_title)
    /\ ModeMatches("policy", cl_title)

\* A title that only the posthoc pair and the policy pair match has been
\* classified posthoc.
C29_WitnessPosthoc ==
    /\ cl_mode = <<"posthoc">>
    /\ ModeMatches("policy", cl_title)

-----------------------------------------------------------------------------
(* Spec, continued: the typing of tags and the first-seen time of an item   *)

\* The item has an ItemTag row for the label, and the Tag row of the label
\* has this tag_type.
AttachedAs(item_id, label, tag_type) ==
    /\ \E r \in Rows(item_tags) : r.item_id = item_id /\ r.tag = label
    /\ \E g \in Rows(tags) : g.tag = label /\ g.tag_type = tag_type

\* C24 as stated: after an upsert, every label the item has as a topic is
\* attached to it through a Tag row of tag_type topic, every label it has as
\* an asset class through a Tag row of tag_type asset_class and every label
\* it has as a geo tag through a Tag row of tag_type geo, also when a label
\* stands in more than one rule table.
C24_AsStated ==
    last.kind = "upsert" =>
        LET item == last.item
        IN  /\ \A i \in DOMAIN item.topics :
                 AttachedAs(item.item_id, item.topics[i], "topic")
            /\ \A i \in DOMAIN item.asset_classes :
                 AttachedAs(item.item_id, item.asset_classes[i], "asset_class")
            /\ \A i \in DOMAIN item.geo_tags :
                 AttachedAs(item.item_id, item.geo_tags[i], "geo")

\* C25 as stated: an upsert of an item_id that has a row keeps the fetched_at
\* of that row.
C25_AsStated ==
    last.kind = "upsert" =>
        \A b \in last.before.items :
            \A r \in Rows(items) : r.item_id = b.item_id => r.fetched_at = b.fetched_at

-----------------------------------------------------------------------------
(* SpecArchive: the store and the archives directory under                   *)
(* archive_old_items                                                         *)

\* The tags of item_id whose Tag row has tag_type: one of the three
\* GROUP_CONCAT(DISTINCT ...) columns of the query, split at the commas.
ArchivedTags(db, item_id, tag_type) ==
    {x.tag : x \in {r \in Rows(db.item_tags) :
                        /\ r.item_id = item_id
                        /\ \E g \in Rows(db.tags) : g.tag = r.tag /\ g.tag_type = tag_type}}

\* The cutoff of archive_old_items at UTC time t: datetime.now(), naive local
\* time, less archive_days.
ArchiveCutoff(archive_days, t) == LocalNow(t) - archive_days * TicksPerDay

\* old_items of archive_old_items: one dict per Item row below the cutoff
\* whose source has a row, with the Signal of the item when it has one and
\* its tags by type.
OldItems(db, archive_days, t) ==
    { [item |-> i,
       rss_url |-> s.rss_url,
       signal |-> {g \in Rows(db.signals) : g.item_id = i.item_id},
       topics |-> ArchivedTags(db, i.item_id, "topic"),
       asset_classes |-> ArchivedTags(db, i.item_id, "asset_class"),
       geo_tags |-> ArchivedTags(db, i.item_id, "geo")] :
        <<i, s>> \in {p \in Rows(db.items) \X Rows(db.sources) :
                        /\ p[2].source_id = p[1].source_id
                        /\ EffectiveTime(p[1]) < ArchiveCutoff(archive_days, t)} }

\* The file name of an archive: the local time of the call and archive_days.
ArchivePath(archive_days, t) == [timestamp |-> LocalNow(t), archive_days |-> archive_days]

\* gzip.open(path, 'wt') and json.dump: the file at path is written anew.
WriteArchive(files, path, content) ==
    {f \in files : f.path # path} \cup {[path |-> path, content |-> content]}

\* The text of the ValueError of archive_old_items.
NothingToArchive(archive_days) ==
    <<"No items found older than ", ToString(archive_days), " days to archive">>

\* A mutant of archive_old_items: old_items is not tested, the file is
\* written whatever was selected.
archive_old_items_NoGuard(db, files, archive_days, t) ==
    LET old_items == OldItems(db, archive_days, t)
        path == ArchivePath(archive_days, t)
    IN  [db |-> db, raised |-> <<>>, path |-> <<path>>,
         files |-> WriteArchive(files, path,
                      [archived_at |-> LocalNow(t), archive_days |-> archive_days,
                       total_items |-> Cardinality(old_items), items |-> old_items])]

\* A mutant of archive_old_items: the rows it archived are deleted.
archive_old_items_Move(db, files, archive_days, t) ==
    LET old_items == OldItems(db, archive_days, t)
        path == ArchivePath(archive_days, t)
        old == {o.item.item_id : o \in old_items}
    IN  IF old_items = {}
        THEN [db |-> db, raised |-> <<NothingToArchive(archive_days)>>, path |-> <<>>,
              files |-> files]
        ELSE [db |-> [db EXCEPT
                        !.item_tags = DeleteRows(@, {r \in Rows(@) : r.item_id \in old}),
                        !.signals = DeleteRows(@, {r \in Rows(@) : r.item_id \in old}),
                        !.items = DeleteRows(@, {r \in Rows(@) : r.item_id \in old})],
              raised |-> <<>>, path |-> <<path>>,
              files |-> WriteArchive(files, path,
                           [archived_at |-> LocalNow(t), archive_days |-> archive_days,
                            total_items |-> Cardinality(old_items), items |-> old_items])]

\* db.archive_old_items at UTC time t: the database and the archives
\* directory it leaves, the ValueError it raised or the path it returned.
archive_old_items(db, files, archive_days, t) ==
    LET old_items == OldItems(db, archive_days, t)
        path == ArchivePath(archive_days, t)
    IN  IF old_items = {}
        THEN [db |-> db, raised |-> <<NothingToArchive(archive_days)>>, path |-> <<>>,
              files |-> files]
        ELSE [db |-> db, raised |-> <<>>, path |-> <<path>>,
              files |-> WriteArchive(files, path,
                           [archived_at |-> LocalNow(t), archive_days |-> archive_days,
                            total_items |-> Cardinality(old_items), items |-> old_items])]

\* The most files the archives directory holds.
MaxArchives == 1

\* The values of archive_days the maintenance form is posted with.
ArchiveDays == {0, 1}

\* One call of archive_old_items.
ArchiveOldItems ==
    \E archive_days \in ArchiveDays :
        LET out == archive_old_items(DB, archives, archive_days, now)
        IN  /\ Cardinality(out.files) <= MaxArchives
            /\ Commit(out.db)
            /\ archives' = out.files
            /\ last' = [kind |-> "archive", archive_days |-> archive_days, t |-> now,
                        raised |-> out.raised, path |-> out.path]
            /\ UNCHANGED <<now, tz, fetch_status>>
            /\ UNCHANGED <<idVars, gwVars, exVars>>

NextArchive == Upsert \/ Tick \/ RunCleanup \/ ArchiveOldItems

SpecArchive == Init /\ [][NextArchive]_vars

\* C21: a call of archive_old_items whose threshold no Item row is older than
\* raises ValueError "No items found older than N days to archive" and leaves
\* the archives directory as it was; every file of the directory holds at
\* least one item record.
C21_NothingToArchiveRaises ==
    /\ [](\A f \in archives : f.content.items # {} /\ f.content.total_items >= 1)
    /\ [][(/\ last'.kind = "archive"
           /\ \A r \in Rows(items) :
                ~(EffectiveTime(r) < LocalNow(now) - last'.archive_days * TicksPerDay))
          => /\ last'.raised = <<NothingToArchive(last'.archive_days)>>
             /\ last'.path = <<>>
             /\ archives' = archives]_vars

\* C21 witness: with items stored and a file from an earlier call in the
\* directory, a call found no item below its threshold and raised.
C21_Witness ==
    /\ last.kind = "archive"
    /\ last.raised = <<NothingToArchive(last.archive_days)>>
    /\ RowCount(items) >= 1
    /\ archives # {}
    /\ \A r \in Rows(items) :
         ~(EffectiveTime(r) < LocalNow(last.t) - last.archive_days * TicksPerDay)

\* C27: a call of archive_old_items, whether it returns a path or raises,
\* leaves the rows of every table as they were.
C27_ArchiveWritesNoRow ==
    [][last'.kind = "archive" =>
        /\ items' = items
        /\ item_tags' = item_tags
        /\ signals' = signals
        /\ tags' = tags
        /\ sources' = sources
        /\ maintenance' = maintenance
        /\ source_status' = source_status]_vars

\* C27 witness: a call wrote a file and the Item, Signal and ItemTag rows
\* it put into the file are stored.
C27_Witness ==
    /\ last.kind = "archive"
    /\ last.raised = <<>>
    /\ \E f \in archives :
         /\ <<f.path>> = last.path
         /\ \E o \in f.content.items :
              /\ o.item \in Rows(items)
              /\ o.signal # {} /\ o.signal \subseteq Rows(signals)
              /\ o.topics # {}
              /\ \A l \in o.topics : TagCountOf(item_tags, o.item.item_id, l) = 1

\* C27 witness: a call raised with rows in the tables.
C27_WitnessRaised ==
    /\ last.kind = "archive"
    /\ last.raised # <<>>
    /\ RowCount(items) >= 1

\* C26: a call of run_cleanup or of maybe_run_daily_cleanup leaves the Tag
\* rows and the Source rows as they were.
C26_CleanupKeepsTagsAndSources ==
    [][last'.kind \in {"cleanup", "maybe"} => (tags' = tags /\ sources' = sources)]_vars

\* C26 witness: a call of run_cleanup deleted every item; the seeded Tag
\* rows and Source rows are all there, with no ItemTag row left to use them.
C26_Witness ==
    /\ last.kind = "cleanup"
    /\ last.stats.items_deleted >= 1
    /\ item_tags = EmptyTable
    /\ tags = init_db_tags
    /\ sources = init_db_sources(EmptyTable, ConfiguredSources)

\* C26 witness: the same through maybe_run_daily_cleanup.
C26_WitnessMaybe ==
    /\ last.kind = "maybe"
    /\ last.ran
    /\ last.stats.items_deleted >= 1
    /\ tags = init_db_tags
    /\ sources = init_db_sources(EmptyTable, ConfiguredSources)

-----------------------------------------------------------------------------
(* SpecLoop: the worker thread in fetch_loop and the holder of stop_event   *)

\* The test of the while statement of fetch_loop: where the thread goes on.
WhileTest(is_set) == IF is_set THEN "done" ELSE "wait"

\* A mutant of AfterWaking: the signal is not looked at after the wait.
AfterWaking_NoCheck(is_set) == "call"

\* The if statement after stop_event.wait: break, or go on to fetch_once.
AfterWaking(is_set) == IF is_set THEN "done" ELSE "call"

\* What the feeds answer to the cycles of the loop: every source the same.
LoopPayloads == {payload \in Payloads : \A i \in DOMAIN payload : payload[i] = payload[1]}

\* The persistence failures of the cycles of the loop: none, or the first
\* statement of the run raises.
LoopFaults == {NoFault, [source |-> 1, after |-> 0]}

\* The store is left alone by a step of the thread outside fetch_once.
LoopKeepsStore ==
    UNCHANGED <<items, signals, item_tags, tags, maintenance, source_status, sources,
                archives, fetch_status, last, tz>>

\* fetch_loop is entered and calls fetch_once for the initial fetch.
InitialFetchBegin ==
    /\ lp_pc = "start"
    /\ lp_pc' = "fetching0"
    /\ LoopKeepsStore
    /\ UNCHANGED <<now, stop_event, lp_hist>>
    /\ UNCHANGED <<idVars, gwVars, rlVars, ccVars, cfVars>>

\* while not stop_event.is_set()
LoopTest ==
    /\ lp_pc = "test"
    /\ lp_pc' = WhileTest(stop_event)
    /\ LoopKeepsStore
    /\ UNCHANGED <<now, stop_event, lp_hist>>
    /\ UNCHANGED <<idVars, gwVars, rlVars, ccVars, cfVars>>

\* stop_event.wait(fetch_interval_seconds) returns because the signal is set.
WaitSignalled ==
    /\ lp_pc = "wait"
    /\ stop_event
    /\ lp_pc' = "check"
    /\ LoopKeepsStore
    /\ UNCHANGED <<now, stop_event, lp_hist>>
    /\ UNCHANGED <<idVars, gwVars, rlVars, ccVars, cfVars>>

\* stop_event.wait(fetch_interval_seconds) returns because the interval, one
\* tick, is over.
WaitTimesOut ==
    /\ lp_pc = "wait"
    /\ ~stop_event
    /\ now < MaxFetchTime
    /\ now' = now + 1
    /\ lp_pc' = "check"
    /\ LoopKeepsStore
    /\ UNCHANGED <<stop_event, lp_hist>>
    /\ UNCHANGED <<idVars, gwVars, rlVars, ccVars, cfVars>>

\* if stop_event.is_set(): break
LoopCheck ==
    /\ lp_pc = "check"
    /\ lp_pc' = AfterWaking(stop_event)
    /\ LoopKeepsStore
    /\ UNCHANGED <<now, stop_event, lp_hist>>
    /\ UNCHANGED <<idVars, gwVars, rlVars, ccVars, cfVars>>

\* The call of fetch_once of the loop body: a periodic cycle starts.
CycleBegin ==
    /\ lp_pc = "call"
    /\ lp_pc' = "fetching"
    /\ lp_hist' = [lp_hist EXCEPT !.cycles = @ + 1,
                                  !.late = IF stop_event THEN @ + 1 ELSE @]
    /\ LoopKeepsStore
    /\ UNCHANGED <<now, stop_event>>
    /\ UNCHANGED <<idVars, gwVars, rlVars, ccVars, cfVars>>

\* fetch_once returns to fetch_loop, from the initial fetch or from a periodic
\* cycle: the store and the published status are what the run left.
FetchOnceReturns ==
    /\ lp_pc \in {"fetching0", "fetching"}
    /\ \E payload \in LoopPayloads, fault \in LoopFaults :
         LET out == fetch_once(DB, payload, fault, now)
         IN  /\ FaultFits(fault, payload)
             /\ Commit(out.db)
             /\ fetch_status' = IF out.raised THEN fetch_status ELSE out.status
             /\ last' = [kind |-> "fetch", payload |-> payload, fault |-> fault,
                         raised |-> out.raised, t |-> now,
                         repeat |-> /\ last.kind = "fetch"
                                    /\ last.payload = payload
                                    /\ last.fault = NoFault
                                    /\ fault = NoFault,
                         n_items |-> RowCount(items)]
    /\ lp_pc' = "test"
    /\ UNCHANGED <<now, tz, archives, stop_event, lp_hist>>
    /\ UNCHANGED <<idVars, gwVars, rlVars, ccVars, cfVars>>

\* The holder of stop_event sets it, wherever the thread stands.
Stop ==
    /\ lp_pc # "done"
    /\ ~stop_event
    /\ stop_event' = TRUE
    /\ lp_hist' = [lp_hist EXCEPT !.stop_at = lp_pc]
    /\ LoopKeepsStore
    /\ UNCHANGED <<now, lp_pc>>
    /\ UNCHANGED <<idVars, gwVars, rlVars, ccVars, cfVars>>

\* The steps of the thread of fetch_loop outside fetch_once.
LoopControl ==
    \/ InitialFetchBegin \/ LoopTest \/ WaitSignalled \/ WaitTimesOut
    \/ LoopCheck \/ CycleBegin

\* The steps of the thread of fetch_loop.
LoopStep == LoopControl \/ FetchOnceReturns

\* The step by which the thread leaves fetch_once, as far as lp_pc shows it.
FetchOnceIsOver == lp_pc \in {"fetching0", "fetching"} /\ lp_pc' = "test"

NextLoop == LoopStep \/ Stop

\* The thread is started on the store that init_db left.
InitLoop ==
    /\ InitDb
    /\ sources = init_db_sources(EmptyTable, EnabledSources)
    /\ tz = 0
    /\ IdleId /\ IdleGw /\ IdleRl /\ IdleCc /\ IdleCf
    /\ lp_pc = "start"
    /\ stop_event = FALSE
    /\ lp_hist = [cycles |-> 0, late |-> 0, stop_at |-> "unset"]

\* The thread is scheduled again and again, and every call of fetch_once
\* returns: its requests time out and its waits for the database are bounded.
SpecLoop ==
    InitLoop /\ [][NextLoop]_vars /\ WF_vars(LoopControl) /\ WF_lp_pc(FetchOnceIsOver)

\* C22 as stated: after the initial fetch no fetch_once cycle starts once
\* stop_event has been set, and once stop_event is set fetch_loop returns.
C22_AsStated ==
    /\ [][(lp_pc = "call" /\ lp_pc' = "fetching") => ~stop_event]_vars
    /\ (stop_event ~> lp_pc = "done")

\* C22 amended: after the initial fetch a fetch_once cycle starts with
\* stop_event set only when the signal was set between the check after waking,
\* which found it unset, and the call; at most one cycle starts this way, and
\* once stop_event is set fetch_loop returns.
C22_StopsAfterAtMostOneCycle ==
    /\ [](lp_hist.late <= 1)
    /\ [][(lp_pc = "call" /\ lp_pc' = "fetching" /\ stop_event)
            => lp_hist.stop_at = "call"]_vars
    /\ (stop_event ~> lp_pc = "done")

\* C22 witness: the signal was set between the check and the call, the cycle
\* ran, and fetch_loop returned.
C22_Witness ==
    /\ lp_pc = "done"
    /\ stop_event
    /\ lp_hist.late = 1
    /\ lp_hist.stop_at = "call"

\* C22 witness: the signal was set during a cycle and fetch_loop returned
\* with no cycle started after it.
C22_WitnessInProgress ==
    /\ lp_pc = "done"
    /\ lp_hist.stop_at = "fetching"
    /\ lp_hist.late = 0
    /\ lp_hist.cycles >= 1

-----------------------------------------------------------------------------
(* SpecRace: fetch_once called by fetch_now while the worker thread is in a  *)
(* cycle of fetch_loop. Each call has its own connection; a connection      *)
(* begins a transaction at the first writing statement of a source, which   *)
(* takes the write lock of the database, and commits after the source.      *)

\* The two callers of fetch_once.
Callers == {"manual", "loop"}

\* The store init_db leaves for the sources of the feeds.
InitialStore ==
    [items |-> EmptyTable, signals |-> EmptyTable, item_tags |-> EmptyTable,
     tags |-> init_db_tags, maintenance |-> EmptyTable, source_status |-> EmptyTable,
     sources |-> init_db_sources(EmptyTable, EnabledSources)]

\* The entries of a feed that fetch_once does not skip: title and link set.
ValidAt(entries) ==
    {k \in DOMAIN entries : ~SkipEntry(normalize_ws(PyOr(entries[k].title, <<>>)),
                                        PyOr(entries[k].link, <<>>))}

\* The item of the first entry of the feed that is not skipped, if any.
FirstItem(s, o, t) ==
    IF Truthy(o.error) \/ ValidAt(o.entries) = {} THEN <<>>
    ELSE LET k == CHOOSE k \in ValidAt(o.entries) : \A j \in ValidAt(o.entries) : k <= j
         IN  <<ItemFor(s.source_id, o.entries[k], t)>>

\* SELECT 1 FROM items WHERE item_id=? for the first item of a source: it is
\* read before the transaction begins. <<>> when the source has no item.
FirstExists(db, s, o, t) ==
    LET first == FirstItem(s, o, t)
    IN  IF first = <<>> THEN <<>>
        ELSE <<\E r \in Rows(db.items) : r.item_id = first[1].item_id>>

\* The row of source_id in source_status with n more items counted as added.
CountedAsAdded(t, source_id, n) ==
    [r \in {IF q.source_id = source_id THEN [q EXCEPT !.items_added_last_fetch = @ + n] ELSE q :
              q \in Rows(t)} |-> 1]

\* The transaction of one source on the committed store db, its first item
\* having been looked up before with the answer probe: when the row came in
\* between, the item is counted as added though it was there.
SourceTransaction(db, run, s, o, probe) ==
    LET over == IF /\ probe = <<FALSE>>
                   /\ \E r \in Rows(db.items) : r.item_id = FirstItem(s, o, run.started)[1].item_id
                THEN 1 ELSE 0
        out == SourceStep([db |-> db, added |-> run.added, err |-> run.err, aborted |-> FALSE],
                          s, o, <<>>, run.started)
    IN  IF over = 0 THEN out
        ELSE [out EXCEPT !.db.source_status = CountedAsAdded(@, s.source_id, over),
                         !.added = @ + over]

\* The statements fetch_once runs on its connection for a source whose feed
\* came back as o without the last statement: the status row alone when the
\* fetch failed, else the writes of every entry kept and the status row.
SourceStatements_NoCommitOnError(o) ==
    IF Truthy(o.error) THEN <<"write">>
    ELSE [k \in 1..Cardinality(ValidAt(o.entries)) |-> "write"] \o <<"write", "commit">>

\* The statements fetch_once runs on its connection for a source whose feed
\* came back as o: the status row and conn.commit() when the fetch failed,
\* else the writes of every entry kept, the status row and conn.commit().
SourceStatements(o) ==
    IF Truthy(o.error) THEN <<"write", "commit">>
    ELSE [k \in 1..Cardinality(ValidAt(o.entries)) |-> "write"] \o <<"write", "commit">>

\* The connection is in a transaction after the statements: a write opened
\* it and no commit came after that write.
Uncommitted(stmts) ==
    \E k \in DOMAIN stmts :
        stmts[k] = "write" /\ \A j \in DOMAIN stmts : j > k => stmts[j] # "commit"

\* A call of fetch_once that has not begun.
NotBegun == [pc |-> "idle", i |-> 0, started |-> 0, added |-> 0, err |-> None, probe |-> <<>>]

\* The steps of the two calls leave these alone.
RaceKeeps ==
    /\ UNCHANGED <<maintenance, archives, tz, last, cc_payload>>
    /\ UNCHANGED <<idVars, gwVars, rlVars, lpVars, cfVars>>

RaceKeepsStore ==
    UNCHANGED <<items, signals, item_tags, tags, source_status, sources>>

\* fetch_once is entered: it reads the clock, connects and reads the enabled
\* sources.
RaceBegin(r) ==
    /\ cc_runs[r].pc = "idle"
    /\ cc_runs' = [cc_runs EXCEPT ![r] = [NotBegun EXCEPT !.pc = "source", !.i = 1,
                                                          !.started = now]]
    /\ RaceKeepsStore /\ RaceKeeps
    /\ UNCHANGED <<now, fetch_status, cc_lock, cc_hist>>

\* The feed of the next source is fetched and, when it has an item, the
\* first one is looked up; the writing statement that follows needs the lock.
RaceFetched(r) ==
    /\ cc_runs[r].pc = "source"
    /\ cc_runs' = [cc_runs EXCEPT ![r].pc = "wait",
                                  ![r].probe = FirstExists(DB, EnabledSources[cc_runs[r].i],
                                                           cc_payload[cc_runs[r].i],
                                                           cc_runs[r].started)]
    /\ RaceKeepsStore /\ RaceKeeps
    /\ UNCHANGED <<now, fetch_status, cc_lock, cc_hist>>

\* The first writing statement of the source gets the write lock, or has it
\* when the connection is in a transaction.
RaceLocks(r) ==
    /\ cc_runs[r].pc = "wait"
    /\ cc_lock \in {"free", r}
    /\ cc_lock' = r
    /\ cc_runs' = [cc_runs EXCEPT ![r].pc = "write"]
    /\ RaceKeepsStore /\ RaceKeeps
    /\ UNCHANGED <<now, fetch_status, cc_hist>>

\* The other connection keeps the lock for longer than the busy timeout: the
\* statement raises OperationalError, the except branch rolls back and the
\* loop over the sources is over.
RaceBusy(r) ==
    /\ cc_runs[r].pc = "wait"
    /\ cc_lock \in Callers \ {r}
    /\ cc_runs' = [cc_runs EXCEPT ![r].pc = "finish", ![r].err = FaultText]
    /\ cc_hist' = [cc_hist EXCEPT !.busy = @ \cup {r}]
    /\ RaceKeepsStore /\ RaceKeeps
    /\ UNCHANGED <<now, fetch_status, cc_lock>>

\* The statements of the source run; conn.commit() makes them visible to the
\* other connection and gives the lock back.
RaceCommits(r) ==
    /\ cc_runs[r].pc = "write"
    /\ LET run == cc_runs[r]
       IN  \E out \in {SourceTransaction(DB, run, EnabledSources[run.i], cc_payload[run.i],
                                        run.probe)} :
           /\ Commit(out.db)
           /\ cc_runs' = [cc_runs EXCEPT ![r].added = out.added,
                                         ![r].probe = <<>>,
                                         ![r].i = IF run.i < Len(EnabledSources) THEN run.i + 1
                                                  ELSE run.i,
                                         ![r].pc = IF run.i < Len(EnabledSources) THEN "source"
                                                   ELSE "finish"]
           /\ cc_hist' = [cc_hist EXCEPT !.commits = Append(@, <<r, run.i>>)]
    /\ cc_lock' = IF Uncommitted(SourceStatements(cc_payload[cc_runs[r].i])) THEN r ELSE "free"
    /\ RaceKeeps
    /\ UNCHANGED <<now, fetch_status>>

\* The connection is closed and the status of the run is published.
RaceReturns(r) ==
    /\ cc_runs[r].pc = "finish"
    /\ cc_runs' = [cc_runs EXCEPT ![r].pc = "done"]
    /\ fetch_status' = [last_run_utc |-> <<cc_runs[r].started>>, last_error |-> cc_runs[r].err,
                        items_added |-> cc_runs[r].added]
    /\ RaceKeepsStore /\ RaceKeeps
    /\ UNCHANGED <<now, cc_lock, cc_hist>>

\* The ticks of the clock while the two calls run.
MaxRaceTime == 1

\* Time passes while the calls run.
RaceTick ==
    /\ now < MaxRaceTime
    /\ now' = now + 1
    /\ RaceKeepsStore /\ RaceKeeps
    /\ UNCHANGED <<fetch_status, cc_runs, cc_lock, cc_hist>>

NextRace ==
    \/ \E r \in Callers :
         \/ RaceBegin(r) \/ RaceFetched(r) \/ RaceLocks(r) \/ RaceBusy(r)
         \/ RaceCommits(r) \/ RaceReturns(r)
    \/ RaceTick

\* The stores the two calls can find, with the status published before: what
\* init_db left, or what one earlier cycle over some feeds left.
RaceStarts ==
    {[db |-> InitialStore, status |-> InitialFetchStatus]}
        \cup {[db |-> out.db, status |-> out.status] :
                out \in {fetch_once(InitialStore, p, NoFault, 0) : p \in Payloads}}

\* The two calls are about to happen with the same feeds.
InitRace ==
    /\ \E before \in RaceStarts :
         /\ items = before.db.items
         /\ signals = before.db.signals
         /\ item_tags = before.db.item_tags
         /\ tags = before.db.tags
         /\ maintenance = before.db.maintenance
         /\ source_status = before.db.source_status
         /\ sources = before.db.sources
         /\ fetch_status = before.status
         /\ cc_hist = [start |-> before.db, commits |-> <<>>, busy |-> {}]
    /\ cc_payload \in Payloads
    /\ archives = {}
    /\ now = 0
    /\ tz = 0
    /\ last = [kind |-> "init"]
    /\ cc_runs = [r \in Callers |-> NotBegun]
    /\ cc_lock = "free"
    /\ IdleId /\ IdleGw /\ IdleRl /\ IdleLp /\ IdleCf

SpecRace == InitRace /\ [][NextRace]_vars

\* Both calls of fetch_once have returned.
RaceOver == \A r \in Callers : cc_runs[r].pc = "done"

\* The rows of the table items without the time of the write.
Timeless(t) == {[r EXCEPT !.fetched_at = 0] : r \in Rows(t)}

\* The store after the two cycles one after the other, each at the time it
\* began.
OneAfterTheOther ==
    fetch_once(fetch_once(cc_hist.start, cc_payload, NoFault, cc_runs["manual"].started).db,
               cc_payload, NoFault, cc_runs["loop"].started).db

\* C23: however a manually triggered fetch_once and a fetch_once of the loop
\* over the same sources and payloads interleave, the store ends with one
\* Item row per item_id at most, exactly one Signal per item and one ItemTag
\* per (item_id, tag) at most: the Item, Signal and ItemTag rows of the two
\* cycles run one after the other (fetched_at, the time of the write, apart).
C23_InterleavingIsSerial ==
    RaceOver =>
        /\ \A r \in Rows(items) :
             /\ items[r] = 1
             /\ \A q \in Rows(items) : q.item_id = r.item_id => q = r
             /\ \E g \in Rows(signals) :
                  /\ g.item_id = r.item_id
                  /\ signals[g] = 1
                  /\ \A h \in Rows(signals) : h.item_id = r.item_id => h = g
        /\ \A j \in Rows(item_tags) :
             /\ item_tags[j] = 1
             /\ \A k \in Rows(item_tags) : (k.item_id = j.item_id /\ k.tag = j.tag) => k = j
        /\ Timeless(items) = Timeless(OneAfterTheOther.items)
        /\ RowCount(items) = RowCount(OneAfterTheOther.items)
        /\ signals = OneAfterTheOther.signals
        /\ item_tags = OneAfterTheOther.item_tags

\* C23 witness: the two calls took turns, the manual one wrote the first
\* source before and the second source after the call of the loop wrote
\* both, and the store holds tagged items.
C23_Witness ==
    /\ RaceOver
    /\ cc_hist.commits = << <<"manual", 1>>, <<"loop", 1>>, <<"loop", 2>>, <<"manual", 2>> >>
    /\ cc_hist.start.items = EmptyTable
    /\ RowCount(items) >= 3
    /\ item_tags # EmptyTable

\* C23 witness: the call of the loop waited for the lock until the busy
\* timeout and gave up after it had written the first source, which the
\* manual call, begun later, wrote again over the rows of an earlier cycle.
C23_WitnessBusy ==
    /\ RaceOver
    /\ "loop" \in cc_hist.busy
    /\ cc_hist.start.items # EmptyTable
    /\ cc_hist.commits = << <<"loop", 1>>, <<"manual", 1>>, <<"manual", 2>> >>
    /\ \E r \in Rows(items) : r.fetched_at > 0

\* C39: whenever a call of fetch_once is about to fetch the feed of a source,
\* its connection is in no transaction (it holds no uncommitted write), and
\* the writes of every source before that one were committed, the source
\* whose fetch failed included.
C39_NoWriteHeldWhileFetching ==
    \A r \in Callers :
        cc_runs[r].pc = "source" =>
            /\ cc_lock # r
            /\ \A j \in 1..(cc_runs[r].i - 1) :
                   \E k \in DOMAIN cc_hist.commits : cc_hist.commits[k] = <<r, j>>

\* C39 witness: a call is about to fetch the second source after the fetch
\* of the first one failed, while the other call is writing.
C39_Witness ==
    \E r \in Callers :
        /\ cc_runs[r].pc = "source"
        /\ cc_runs[r].i = 2
        /\ Truthy(cc_payload[1].error)
        /\ cc_lock \in Callers \ {r}
        /\ \E q \in Rows(source_status) :
              q.source_id = EnabledSources[1].source_id /\ q.last_fetch_utc = cc_runs[r].started
                                                       /\ Truthy(q.last_error)

\* C39 witness: a call is about to fetch the second source after the first
\* one gave items, which are committed.
C39_WitnessSuccess ==
    \E r \in Callers :
        /\ cc_runs[r].pc = "source"
        /\ cc_runs[r].i = 2
        /\ ~Truthy(cc_payload[1].error)
        /\ cc_runs[r].added >= 1
        /\ cc_lock = "free"

-----------------------------------------------------------------------------
(* SpecConfig: the loaders of the rule tables (rules_config) and the         *)
(* configuration file they read                                             *)

\* The values json.load hands back: null, a number, a string, a list, an
\* object with its keys in the order of the file.
JNull == [type |-> "null"]

JNum(n) == [type |-> "num", n |-> n]

JStr(s) == [type |-> "str", s |-> s]

JList(elems) == [type |-> "list", elems |-> elems]

JDict(entries) == [type |-> "dict", entries |-> entries]

\* Python truthiness of a decoded value, the test `if config:`.
JTruthy(v) ==
    IF v.type = "null" THEN FALSE
    ELSE IF v.type = "num" THEN v.n # 0
    ELSE IF v.type = "str" THEN v.s # <<>>
    ELSE IF v.type = "list" THEN v.elems # <<>>
    ELSE v.entries # <<>>

\* isinstance(value, list) and all(isinstance(item, str) for item in value)
IsListOfStr(v) ==
    IF v.type = "list" THEN \A i \in DOMAIN v.elems : v.elems[i].type = "str" ELSE FALSE

\* rules_config.load_rules_from_file: the decoded value, None (JNull) when
\* the file is missing, cannot be read or is not JSON text; a file whose
\* bytes are not UTF-8 makes open/read raise UnicodeDecodeError, which is
\* none of the exceptions caught.
load_rules_from_file(file) ==
    IF file.kind = "json" THEN [raised |-> FALSE, value |-> file.value]
    ELSE IF file.kind \in {"missing", "unreadable", "malformed"}
    THEN [raised |-> FALSE, value |-> JNull]
    ELSE [raised |-> TRUE, value |-> JNull]

\* The loop over config.items(): the entries that pass the test, in order,
\* each with the patterns of its list.
RECURSIVE Validated(_)
Validated(entries) ==
    IF entries = <<>> THEN <<>>
    ELSE LET e == Head(entries)
         IN  (IF IsListOfStr(e.value)
              THEN <<[label |-> e.label,
                      words |-> {e.value.elems[i].s : i \in DOMAIN e.value.elems}]>>
              ELSE <<>>) \o Validated(Tail(entries))

\* The body the three loaders share, with the default table of the loader.
LoadTable(file, defaults) ==
    LET config == load_rules_from_file(file)
    IN  IF config.raised THEN [raised |-> TRUE, table |-> <<>>]
        ELSE IF /\ JTruthy(config.value)
                /\ config.value.type = "dict"
                /\ Validated(config.value.entries) # <<>>
        THEN [raised |-> FALSE, table |-> Validated(config.value.entries)]
        ELSE [raised |-> FALSE, table |-> defaults]

\* rules_config.load_topic_rules on the file topics.json
load_topic_rules(file) == LoadTable(file, TOPIC_RULES)

\* rules_config.load_asset_class_rules on the file asset_classes.json
load_asset_class_rules(file) == LoadTable(file, ASSET_CLASS_RULES)

\* rules_config.load_geo_rules on the file geo.json
load_geo_rules(file) == LoadTable(file, GEO_RULES)

\* The default table of each loader.
DefaultsOf(loader) ==
    IF loader = "topic" THEN TOPIC_RULES
    ELSE IF loader = "asset_class" THEN ASSET_CLASS_RULES
    ELSE GEO_RULES

\* The entries an external file is made of: a label with a default in the
\* three tables or in none, and a value that is a list of strings, an empty
\* list, a string, a list with a number in it, or a number.
ConfigLabels == {"rates", "US", "custom"}

ConfigValues ==
    { JList(<<JStr(<<"o","i","l">>)>>), JList(<<>>), JStr(<<"o","i","l">>),
      JList(<<JNum(1), JStr(<<"o","i","l">>)>>), JNum(0) }

ConfigEntries == [label : ConfigLabels, value : ConfigValues]

\* The most entries an external file of the model has.
MaxConfigEntries == 2

\* The objects of the external files, no label twice.
ConfigObjects ==
    UNION { {es \in [1..n -> ConfigEntries] :
                \A i \in 1..n : \A j \in 1..n : es[i].label = es[j].label => i = j} :
            n \in 0..MaxConfigEntries }

\* What the file of a table can be.
ConfigFiles ==
    { [kind |-> k, value |-> JNull] : k \in {"missing", "unreadable", "malformed", "undecodable"} }
        \cup { [kind |-> "json", value |-> v] :
                 v \in {JNull, JNum(1), JStr(<<"o","i","l">>), JList(<<JList(<<JStr(<<"o","i","l">>)>>)>>)} }
        \cup { [kind |-> "json", value |-> JDict(es)] : es \in ConfigObjects }

\* The steps of SpecConfig leave the rest alone.
ConfigKeeps == UNCHANGED <<dbVars, idVars, gwVars, rlVars, lpVars, ccVars>>

\* The file is written, replaced or removed by its owner.
WriteConfig ==
    /\ cf_file' \in ConfigFiles \ {cf_file}
    /\ cf_loaded' = <<>>
    /\ ConfigKeeps

LoadTopicRules ==
    /\ cf_loaded' = <<[loader |-> "topic", out |-> load_topic_rules(cf_file)]>>
    /\ UNCHANGED cf_file
    /\ ConfigKeeps

LoadAssetClassRules ==
    /\ cf_loaded' = <<[loader |-> "asset_class", out |-> load_asset_class_rules(cf_file)]>>
    /\ UNCHANGED cf_file
    /\ ConfigKeeps

LoadGeoRules ==
    /\ cf_loaded' = <<[loader |-> "geo", out |-> load_geo_rules(cf_file)]>>
    /\ UNCHANGED cf_file
    /\ ConfigKeeps

NextConfig == WriteConfig \/ LoadTopicRules \/ LoadAssetClassRules \/ LoadGeoRules

InitConfig ==
    /\ cf_file \in ConfigFiles
    /\ cf_loaded = <<>>
    /\ IdleDb /\ IdleId /\ IdleGw /\ IdleRl /\ IdleLp /\ IdleCc

SpecConfig == InitConfig /\ [][NextConfig]_vars

\* The entries of the file that are not a list of strings.
InvalidEntries(file) ==
    IF file.kind = "json" /\ file.value.type = "dict"
    THEN {file.value.entries[i] : i \in {j \in DOMAIN file.value.entries :
                                            ~IsListOfStr(file.value.entries[j].value)}}
    ELSE {}

\* The entries of the file that are a list of strings.
ListOfStrEntries(file) ==
    IF file.kind = "json" /\ file.value.type = "dict"
    THEN {file.value.entries[i] : i \in {j \in DOMAIN file.value.entries :
                                            IsListOfStr(file.value.entries[j].value)}}
    ELSE {}

\* The rows of a table.
RowsOfTable(table) == {table[i] : i \in DOMAIN table}

\* C31 as stated: when a loader meets an entry whose value is not a list of
\* strings, the entry is not in the returned table and the built-in default
\* of its label, where the loader has one, is in the returned table.
C31_AsStated ==
    \A c \in RowsOfTable(cf_loaded) : \A e \in InvalidEntries(cf_file) :
        /\ ~c.out.raised
        /\ \A d \in RowsOfTable(DefaultsOf(c.loader)) :
             d.label = e.label => d \in RowsOfTable(c.out.table)

\* C32 as stated: load_topic_rules returns exactly the entries of the file
\* whose value is a list of strings when there is one, and the complete
\* default table when the file is missing, is not valid JSON, is not a
\* mapping or has no valid entry.
C32_AsStated ==
    \A c \in RowsOfTable(cf_loaded) :
        c.loader = "topic" =>
            /\ ~c.out.raised
            /\ IF ListOfStrEntries(cf_file) # {}
               THEN /\ Len(c.out.table) = Cardinality(ListOfStrEntries(cf_file))
                    /\ \A e \in ListOfStrEntries(cf_file) :
                         \E i \in DOMAIN c.out.table :
                            /\ c.out.table[i].label = e.label
                            /\ c.out.table[i].words =
                                 {e.value.elems[k].s : k \in DOMAIN e.value.elems}
               ELSE c.out.table = TOPIC_RULES

-----------------------------------------------------------------------------
(* SpecIngest, continued: the commits of a run, the status rows, the entries *)
(* skipped, the parse warning                                               *)

\* The sources of the run from number k on.
SourcesFrom(k) == {i \in DOMAIN EnabledSources : i >= k}

\* C33: fetch_once commits once per source: when a statement raises while a
\* source is processed, the store is the one the sources completed before it
\* left, with every Item, Signal, ItemTag and SourceStatus row they wrote,
\* and no write of the source in flight is in it.
C33_CommitPerSource ==
    [][(last'.kind = "fetch" /\ last'.t = now /\ last'.fault # NoFault) =>
        LET k == last'.fault.source
            sid == EnabledSources[k].source_id
        IN  /\ DB' = fetch_once_without(DB, last'.payload, NoFault, SourcesFrom(k), now).db
            /\ \A r \in Rows(items') : r.source_id = sid => r \in Rows(items)
            /\ \A r \in Rows(source_status') : r.source_id = sid => r \in Rows(source_status)]_vars

\* C33 witness: a statement raised after an entry of the second source was
\* upserted; the items of the first source are stored with their status row
\* and nothing of the second source is.
C33_Witness ==
    /\ last.kind = "fetch"
    /\ last.fault # NoFault
    /\ last.fault.source = 2
    /\ last.fault.after >= 1
    /\ ValidAt(SubSeq(last.payload[2].entries, 1, last.fault.after)) # {}
    /\ \E r \in Rows(items) :
          r.source_id = EnabledSources[1].source_id /\ r.fetched_at = last.t
    /\ \E r \in Rows(source_status) :
          r.source_id = EnabledSources[1].source_id /\ r.last_fetch_utc = last.t
    /\ \A r \in Rows(items) : r.source_id # EnabledSources[2].source_id
    /\ \A r \in Rows(source_status) : r.source_id # EnabledSources[2].source_id

\* The rows of source number i in a source_status table.
StatusRowsOf(t, i) == {r \in Rows(t) : r.source_id = EnabledSources[i].source_id}

\* The run with this fault wrote and committed the status of source number i.
Processed(fault, i) == fault = NoFault \/ fault.source > i

\* C34 as stated, run by run: after a run every source has one SourceStatus
\* row at most; the row of a source the run processed has the time of the
\* run as last_fetch_utc; last_ok_utc is the time of the run when the run
\* fetched the source successfully, and otherwise stays the time of the most
\* recent successful fetch, also when the fetch of this run failed.
C34_AsStated ==
    [][(last'.kind = "fetch" /\ last'.t = now) =>
        \A i \in DOMAIN EnabledSources :
            /\ \A r \in StatusRowsOf(source_status', i) :
                 /\ source_status'[r] = 1
                 /\ StatusRowsOf(source_status', i) = {r}
            /\ Processed(last'.fault, i) =>
                 \E r \in StatusRowsOf(source_status', i) :
                    /\ r.last_fetch_utc = now
                    /\ ~Truthy(last'.payload[i].error) => r.last_ok_utc = <<now>>
            /\ (~Processed(last'.fault, i) \/ Truthy(last'.payload[i].error)) =>
                 \A q \in StatusRowsOf(source_status, i) :
                    \E r \in StatusRowsOf(source_status', i) : r.last_ok_utc = q.last_ok_utc]_vars

\* C35: an entry whose normalized title is empty or whose link is empty is
\* dropped before its identity is computed: no Item, Signal or ItemTag row
\* carries the identifier it would have got, it sets neither the error of the
\* source nor the error of the run, and the other entries of the feed are
\* stored.
C35_InvalidEntriesAreSkipped ==
    last.kind = "fetch" =>
        \A i \in DOMAIN EnabledSources :
            (Processed(last.fault, i) /\ ~Truthy(last.payload[i].error)) =>
                LET sid == EnabledSources[i].source_id
                    o == last.payload[i]
                IN  \A k \in DOMAIN o.entries :
                        LET e == o.entries[k]
                            ttl == normalize_ws(PyOr(e.title, <<>>))
                            url == PyOr(e.link, <<>>)
                            id == stable_item_id(sid, ttl, url, PyOr(e.id, e.guid))
                        IN  IF ttl = <<>> \/ url = <<>>
                            THEN /\ \A r \in Rows(items) : r.item_id # id
                                 /\ \A r \in Rows(signals) : r.item_id # id
                                 /\ \A r \in Rows(item_tags) : r.item_id # id
                                 /\ \A r \in StatusRowsOf(source_status, i) :
                                      /\ ~o.bozo => r.last_error = None
                                      /\ r.last_ok_utc = <<last.t>>
                                      /\ r.items_seen_last_fetch = Len(o.entries)
                                 /\ last.fault = NoFault => fetch_status.last_error = None
                            ELSE \E r \in Rows(items) : r.item_id = id /\ r.fetched_at = last.t

\* C35 witness: a feed had an entry without link between two entries with
\* title and link, and another feed an entry with a blank title; the run
\* stored the entries around them.
C35_Witness ==
    /\ last.kind = "fetch"
    /\ last.fault = NoFault
    /\ last.payload[1].entries = <<EntryYields, EntryNoLink, EntryOilWide>>
    /\ last.payload[2].entries = <<EntryFed, EntryBlank, EntryOil>>
    /\ RowCount(items) = 3
    /\ fetch_status.last_error = None
    /\ \E r \in StatusRowsOf(source_status, 1) :
          r.items_seen_last_fetch = 3 /\ r.items_added_last_fetch = 2

\* C36: when a fetched feed has the bozo flag set, the run still upserts
\* every valid entry of the feed and records the source as fetched with
\* success (last_ok_utc the time of the run, the HTTP status stored) with the
\* parse warning as note; the error of the run stays empty and the run goes
\* on with the next source.
C36_BozoFeedIsIngested ==
    last.kind = "fetch" =>
        \A i \in DOMAIN EnabledSources :
            LET o == last.payload[i]
                sid == EnabledSources[i].source_id
            IN  (Processed(last.fault, i) /\ ~Truthy(o.error) /\ o.bozo) =>
                    /\ \A k \in DOMAIN o.entries :
                         LET e == o.entries[k]
                             ttl == normalize_ws(PyOr(e.title, <<>>))
                             url == PyOr(e.link, <<>>)
                         IN  (ttl # <<>> /\ url # <<>>) =>
                               \E r \in Rows(items) :
                                  /\ r.item_id = stable_item_id(sid, ttl, url, PyOr(e.id, e.guid))
                                  /\ r.fetched_at = last.t
                    /\ \E r \in StatusRowsOf(source_status, i) :
                         /\ r.last_ok_utc = <<last.t>>
                         /\ r.last_fetch_utc = last.t
                         /\ r.last_http_status = o.http_status
                         /\ r.last_error = <<"RSS parse warning (bozo flag set)">>
                    /\ last.fault = NoFault => fetch_status.last_error = None
                    /\ \A j \in DOMAIN EnabledSources :
                         (j > i /\ last.fault = NoFault) =>
                            \E r \in StatusRowsOf(source_status, j) : r.last_fetch_utc = last.t

\* C36 witness: the feed of the first source came with the bozo flag, the
\* entry after the one without link is stored, and the second source was
\* fetched after it and its entries stored.
C36_Witness ==
    /\ last.kind = "fetch"
    /\ last.fault = NoFault
    /\ last.payload[1].bozo
    /\ ~Truthy(last.payload[2].error) /\ ~last.payload[2].bozo
    /\ \E r \in Rows(items) :
          /\ r.source_id = EnabledSources[1].source_id
          /\ r.fetched_at = last.t
          /\ r.title = normalize_ws(TxtOilRiskWide)
    /\ \E r \in StatusRowsOf(source_status, 1) :
          r.last_ok_utc = <<last.t>> /\ r.items_added_last_fetch = 2
    /\ \E r \in Rows(items) : r.source_id = EnabledSources[2].source_id /\ r.fetched_at = last.t
    /\ fetch_status.last_error = None

\* The identifiers of the rows of a table items.
ItemIds(t) == {r.item_id : r \in Rows(t)}

\* C38 as stated, for one run after the other: the items_added a run
\* publishes is the number of Item rows that were not there before the run
\* and are there, committed, after it, also when a statement of the run raised
\* and its source was rolled back.
C38_AsStated ==
    [][(last'.kind = "fetch" /\ last'.t = now) =>
        fetch_status'.items_added = Cardinality(ItemIds(items') \ ItemIds(items))]_vars

-----------------------------------------------------------------------------
(* SpecEnabled: fetch_once on a sources table with enabled and disabled rows *)

\* The configurations of the two feeds: the key "enabled" of each source is
\* missing, true or false.
EnabledChoices ==
    { cfg \in [DOMAIN EnabledSources ->
                 [source_id : {EnabledSources[i].source_id : i \in DOMAIN EnabledSources},
                  rss_url : {EnabledSources[i].rss_url : i \in DOMAIN EnabledSources},
                  enabled : BOOLEAN]
                 \cup {EnabledSources[i] : i \in DOMAIN EnabledSources}] :
        \A i \in DOMAIN EnabledSources :
            /\ cfg[i].source_id = EnabledSources[i].source_id
            /\ cfg[i].rss_url = EnabledSources[i].rss_url }

\* The store after init_db with one of the configurations.
InitEnabled ==
    /\ InitDb
    /\ sources \in {init_db_sources(EmptyTable, cfg) : cfg \in EnabledChoices}
    /\ IdleId /\ IdleGw /\ IdleEx
    /\ tz = 0

SpecEnabled == InitEnabled /\ [][NextIngest]_vars

\* C37 as stated: in a run of fetch_once every enabled source is fetched and
\* gets one SourceStatus write of the run, and a source whose enabled flag is
\* 0 is not fetched and gets no SourceStatus write.
C37_AsStated ==
    last.kind = "fetch" =>
        \A i \in DOMAIN EnabledSources :
            IF i \in NotSelected(sources)
            THEN StatusRowsOf(source_status, i) = {}
            ELSE \E r \in StatusRowsOf(source_status, i) :
                    /\ StatusRowsOf(source_status, i) = {r}
                    /\ source_status[r] = 1
                    /\ r.last_fetch_utc = last.t

-----------------------------------------------------------------------------
(* SpecStore: the writers of the content tables together. init_db, then    *)
(* runs of fetch_once, which calls upsert_item_and_annotations for every   *)
(* entry it keeps, and calls of run_cleanup in any order while time passes. *)

NextStore == FetchOnce \/ TickIngest \/ RunCleanup

SpecStore == InitIngest /\ [][NextStore]_vars

\* C40: in every committed state every ItemTag row has its Item row and its
\* Tag row, and every Signal row has its Item row.
C40_NoOrphanRows ==
    /\ \A r \in Rows(item_tags) :
          /\ \E i \in Rows(items) : i.item_id = r.item_id
          /\ \E g \in Rows(tags) : g.tag = r.tag
    /\ \A r \in Rows(signals) : \E i \in Rows(items) : i.item_id = r.item_id

\* C40 witness: run_cleanup has deleted items while other items, with their
\* ItemTag and Signal rows, stay.
C40_Witness ==
    /\ last.kind = "cleanup"
    /\ last.stats.items_deleted > 0
    /\ last.stats.tags_deleted > 0
    /\ Rows(item_tags) # {}
    /\ Rows(signals) # {}

\* C40 witness: a run of fetch_once was rolled back in a source after an
\* entry was written, on a store that holds items.
C40_WitnessRollback ==
    /\ last.kind = "fetch"
    /\ last.fault # NoFault
    /\ last.fault.after >= 1
    /\ Rows(item_tags) # {}

====
